---- MODULE Spec2Model ----
(***************************************************************************)
(* Ledger derivation and recurring-transaction engine of simple-ledger     *)
(* (src/App.tsx, src/components/TabNav.tsx).                               *)
(*                                                                         *)
(* Dates.  The program keeps dates as 'YYYY-MM-DD' strings and compares    *)
(* them with the string operators <= and >.  A date string is modelled as  *)
(* the triple <<year, month, day>>; for four-digit years the string order  *)
(* is the lexicographic order of the triples (DateLE, DateLT).             *)
(* getNextDate parses the string with new Date(dateStr) (UTC midnight),    *)
(* edits it with the local-time setters setDate/setMonth/setFullYear and   *)
(* formats it with toISOString (UTC).  The model runs the program in a     *)
(* zone whose offset from UTC is not negative and has no daylight saving   *)
(* (Asia/Taipei, the locale of the application): there the local calendar  *)
(* fields of a UTC-midnight instant are its UTC calendar fields.           *)
(*                                                                         *)
(* Numbers.  Amounts and balances are numbers with at most one decimal     *)
(* digit (whole numbers wherever the entry form produced them); NaN is the *)
(* one non-number value: an amount that does not parse, or the result of   *)
(* arithmetic on a missing (undefined) balance entry.                      *)
(*                                                                         *)
(* Text.  A string that is read character by character (a CSV file and its *)
(* cells, names, descriptions) is the sequence of its tokens: a quote, a   *)
(* comma, a line feed, a blank, a digit, a sign and a point are tokens of  *)
(* their own, every other token is a run of ordinary characters.  The      *)
(* Chinese labels of the program are written as ASCII words.               *)
(***************************************************************************)
EXTENDS Integers, Sequences, FiniteSets, TLC

VARIABLES
    accounts,               \* useState accounts: sequence of Account
    transactions,           \* useState transactions: sequence of Transaction
    recurringTransactions,  \* useState recurringTransactions: sequence of templates
    accountBalances,        \* the memoised balance map of the last render
    today,                  \* the calendar date new Date() gives
    phase,                  \* "render": a render is pending; "effect": the effects of
                            \* the last render are pending; "idle": waiting for an event
    effectDue,              \* the last render changed the deps of the catch-up effect
    lastPass,               \* record of the last run of the catch-up effect
    renderedPending,        \* the last render ran while a template was still due
    clock,                  \* Date.now(), as the number of ids handed out
    prevBalances,           \* balance harness: the map before the last insertion
    lastAdded,              \* balance harness: the transaction inserted last
    dateStr,                \* date harness: the current due date
    freq,                   \* date harness: the frequency stepped with
    prevDate,               \* date harness: the due date before the last step
    startDate,              \* date harness: the first due date
    steps,                  \* date harness: number of getNextDate calls made
    searchTerm,             \* useState searchTerm of the history view
    filters,                \* useState filters of the history view
    sortConfig,             \* useState sortConfig of the history view
    draggedAccountIndex,    \* useState draggedAccountIndex (0-based), NoIndex for null
    storage,                \* localStorage[STORAGE_KEY]: the snapshot stored last
    quota,                  \* the size localStorage accepts for the snapshot
    currentTheme,           \* useState currentTheme
    lastImport,             \* record of the last run of handleImportCSV
    exported,               \* record of the last run of handleExportCSV
    restored,               \* record of the last run of restoreDataFromGoogleSheets
    lastReorder,            \* record of the last moveAccount / handleDragOver
    lastStore               \* record of the last run of saveData

appVars == <<accounts, transactions, recurringTransactions, accountBalances,
             today, phase, effectDue, lastPass, renderedPending, clock>>
balVars == <<prevBalances, lastAdded>>
dateVars == <<dateStr, freq, prevDate, startDate, steps>>
viewVars == <<searchTerm, filters, sortConfig>>
ioVars == <<lastImport, exported, restored>>
accVars == <<draggedAccountIndex, lastReorder>>
storeVars == <<storage, quota, currentTheme, lastStore>>
ledgerVars == <<viewVars, ioVars, accVars, storeVars>>
vars == <<appVars, balVars, dateVars, ledgerVars>>

-----------------------------------------------------------------------------
(* Values                                                                  *)

\* A JavaScript number is the one-element tuple <<n>> when it is whole, the
\* pair <<w, t>> for w + t/10 with t in 1..9, and NaN is the empty tuple.
Num(n) == <<n>>
NaN == <<>>
IsNaN(x) == x = NaN
Val(x) == x[1]

\* a number as a count of tenths, and back
Tenths(x) == IF Len(x) = 1 THEN 10 * x[1] ELSE 10 * x[1] + x[2]
FromTenths(t) == IF t % 10 = 0 THEN <<t \div 10>> ELSE <<t \div 10, t % 10>>
IsInteger(x) == Len(x) = 1

\* Math.round: to the nearest whole number, a half towards +Infinity
MathRound(x) == IF IsNaN(x) THEN NaN ELSE Num((Tenths(x) + 5) \div 10)

\* an absent optional string field; '' and undefined are the falsy strings
Undefined == "undefined"
Truthy(s) == s \notin {Undefined, ""}

\* an absent optional date field (endDate, lastGenerated)
NoDate == <<0, 0, 0>>

TransactionType == {"INCOME", "EXPENSE", "TRANSFER"}
Frequency == {"DAILY", "WEEKLY", "MONTHLY", "BI_MONTHLY_ODD", "BI_MONTHLY_EVEN", "YEARLY"}

-----------------------------------------------------------------------------
(* Text: strings as token sequences, and the string methods the CSV code   *)
(* calls on them                                                           *)

QUOTE == "\""
COMMA == ","
NEWLINE == "\n"
SPACE == " "
BOM == "FEFF"

\* the characters String.prototype.trim and parseFloat take for white space
WhiteSpace == {SPACE, NEWLINE, "\r", "\t", BOM}

Digits == <<"0", "1", "2", "3", "4", "5", "6", "7", "8", "9">>
IsDigit(c) == \E n \in 1..10 : Digits[n] = c
DigitVal(c) == (CHOOSE n \in 1..10 : Digits[n] = c) - 1

\* the decimal digits of a natural number, and their value
RECURSIVE NatToText(_)
NatToText(n) ==
    IF n < 10 THEN <<Digits[n + 1]>>
    ELSE Append(NatToText(n \div 10), Digits[(n % 10) + 1])

RECURSIVE TextToNat(_)
TextToNat(s) ==
    IF s = <<>> THEN 0
    ELSE 10 * TextToNat(SubSeq(s, 1, Len(s) - 1)) + DigitVal(s[Len(s)])

\* String(x) of a number
NumberToText(x) ==
    IF IsNaN(x) THEN <<"NaN">>
    ELSE LET t == Tenths(x)
             a == IF t < 0 THEN 0 - t ELSE t
         IN  (IF t < 0 THEN <<"-">> ELSE <<>>)
             \o NatToText(a \div 10)
             \o (IF a % 10 = 0 THEN <<>> ELSE <<".", Digits[(a % 10) + 1]>>)

\* the longest prefix of s made of digits
RECURSIVE DigitPrefix(_)
DigitPrefix(s) ==
    IF s # <<>> /\ IsDigit(Head(s)) THEN <<Head(s)>> \o DigitPrefix(Tail(s))
    ELSE <<>>

RECURSIVE TrimStart(_)
TrimStart(s) ==
    IF s # <<>> /\ Head(s) \in WhiteSpace THEN TrimStart(Tail(s)) ELSE s

RECURSIVE TrimEnd(_)
TrimEnd(s) ==
    IF s # <<>> /\ s[Len(s)] \in WhiteSpace THEN TrimEnd(SubSeq(s, 1, Len(s) - 1))
    ELSE s

\* s.trim()
Trim(s) == TrimEnd(TrimStart(s))

\* parseFloat(s): white space, a sign, digits, a point and digits; whatever
\* follows is ignored, and without any digit the result is NaN.  Of the digits
\* after the point the first one is kept (the texts parsed carry at most one).
parseFloat(s) ==
    LET t == TrimStart(s)
        neg == t # <<>> /\ Head(t) = "-"
        u == IF t # <<>> /\ Head(t) \in {"-", "+"} THEN Tail(t) ELSE t
        ip == DigitPrefix(u)
        r == SubSeq(u, Len(ip) + 1, Len(u))
        fp == IF r # <<>> /\ Head(r) = "." THEN DigitPrefix(Tail(r)) ELSE <<>>
        tenths == 10 * TextToNat(ip) + (IF fp = <<>> THEN 0 ELSE DigitVal(fp[1]))
    IN  IF ip = <<>> /\ fp = <<>> THEN NaN
        ELSE FromTenths(IF neg THEN 0 - tenths ELSE tenths)

\* the pieces of s between the positions seps, which are taken out
SplitAt(s, seps) ==
    LET n == Cardinality(seps)
        Pos(k) == IF k = 0 THEN 0
                  ELSE IF k = n + 1 THEN Len(s) + 1
                  ELSE CHOOSE i \in seps : Cardinality({j \in seps : j < i}) = k - 1
    IN  [k \in 1..(n + 1) |-> SubSeq(s, Pos(k - 1) + 1, Pos(k) - 1)]

\* s.split(sep) for a one-character separator
Split(s, sep) == SplitAt(s, {i \in 1..Len(s) : s[i] = sep})

\* parts.join(sep)
RECURSIVE Join(_, _)
Join(parts, sep) ==
    IF parts = <<>> THEN <<>>
    ELSE IF Len(parts) = 1 THEN parts[1]
    ELSE parts[1] \o <<sep>> \o Join(Tail(parts), sep)

\* s.includes(word) for a word that is one token
Includes(s, word) == \E i \in 1..Len(s) : s[i] = word

\* s.replace(/"/g, '')
NotQuote(c) == c # QUOTE
RemoveQuotes(s) == SelectSeq(s, NotQuote)

CountQuotes(s) == Cardinality({i \in 1..Len(s) : s[i] = QUOTE})

\* s.replace(/"/g, '""')
RECURSIVE EscapeQuotes(_)
EscapeQuotes(s) ==
    IF s = <<>> THEN <<>>
    ELSE IF Head(s) = QUOTE THEN <<QUOTE, QUOTE>> \o EscapeQuotes(Tail(s))
    ELSE <<Head(s)>> \o EscapeQuotes(Tail(s))

\* s.replace(/""/g, '"'): the pairs are taken from the left and never overlap
RECURSIVE UnescapeQuotes(_)
UnescapeQuotes(s) ==
    IF s = <<>> THEN <<>>
    ELSE IF Len(s) >= 2 /\ s[1] = QUOTE /\ s[2] = QUOTE
         THEN <<QUOTE>> \o UnescapeQuotes(SubSeq(s, 3, Len(s)))
    ELSE <<Head(s)>> \o UnescapeQuotes(Tail(s))

\* s.replace(/^"|"$/g, ''): a quote at the start and a quote at the end go
StripOuterQuotes(s) ==
    LET s1 == IF s # <<>> /\ Head(s) = QUOTE THEN Tail(s) ELSE s
    IN  IF s1 # <<>> /\ s1[Len(s1)] = QUOTE THEN SubSeq(s1, 1, Len(s1) - 1) ELSE s1

-----------------------------------------------------------------------------
(* Calendar arithmetic of the JavaScript Date object                       *)

IsLeap(y) == (y % 4 = 0 /\ y % 100 # 0) \/ y % 400 = 0

DaysInMonth(y, m) ==
    IF m = 2 THEN (IF IsLeap(y) THEN 29 ELSE 28)
    ELSE IF m \in {4, 6, 9, 11} THEN 30 ELSE 31

\* MakeDay: a month past December carries into the year, a day past the end of
\* the month carries into the following months (setDate, setMonth, setFullYear).
RECURSIVE MakeDay(_, _, _)
MakeDay(y, m, d) ==
    IF m > 12 THEN MakeDay(y + 1, m - 12, d)
    ELSE IF d > DaysInMonth(y, m) THEN MakeDay(y, m + 1, d - DaysInMonth(y, m))
    ELSE <<y, m, d>>

DateLT(a, b) ==
    \/ a[1] < b[1]
    \/ a[1] = b[1] /\ a[2] < b[2]
    \/ a[1] = b[1] /\ a[2] = b[2] /\ a[3] < b[3]

DateLE(a, b) == a = b \/ DateLT(a, b)

\* a month taken to be thirty days
SetMonthThirtyDays(d) == MakeDay(d[1], d[2], d[3] + 30)

\* d.setMonth(d.getMonth() + 1)
SetMonthNext(d) == MakeDay(d[1], d[2] + 1, d[3])

\* the parity of d.getMonth(), which counts from 0, instead of currentMonth
ParityOkZeroBased(f, m) ==
    \/ f = "BI_MONTHLY_ODD" /\ (m - 1) % 2 # 0
    \/ f = "BI_MONTHLY_EVEN" /\ (m - 1) % 2 = 0

\* the test of the loop on currentMonth = d.getMonth() + 1
ParityOk(f, m) ==
    \/ f = "BI_MONTHLY_ODD" /\ m % 2 # 0
    \/ f = "BI_MONTHLY_EVEN" /\ m % 2 = 0

\* the while (true) loop of getNextDate: d.setMonth(d.getMonth() + 1) until the
\* month has the parity the frequency asks for
RECURSIVE BiMonthlyLoop(_, _)
BiMonthlyLoop(d, f) ==
    IF ParityOk(f, d[2]) THEN d
    ELSE BiMonthlyLoop(SetMonthNext(d), f)

getNextDate(d, f) ==
    IF f = "DAILY" THEN MakeDay(d[1], d[2], d[3] + 1)
    ELSE IF f = "WEEKLY" THEN MakeDay(d[1], d[2], d[3] + 7)
    ELSE IF f = "MONTHLY" THEN SetMonthNext(d)
    ELSE IF f = "YEARLY" THEN MakeDay(d[1] + 1, d[2], d[3])
    ELSE IF f \in {"BI_MONTHLY_ODD", "BI_MONTHLY_EVEN"}
         THEN BiMonthlyLoop(SetMonthNext(d), f)
    ELSE d

-----------------------------------------------------------------------------
(* Accounts and the balance map                                            *)

INITIAL_ACCOUNTS ==
    << [id |-> "acc_1", name |-> <<"wallet">>, type |-> "CASH",
        initialBalance |-> Num(2000), color |-> "bg-orange-500"],
       [id |-> "acc_2", name |-> <<"bank">>, type |-> "BANK",
        initialBalance |-> Num(150000), color |-> "bg-blue-500"],
       [id |-> "acc_3", name |-> <<"card">>, type |-> "CREDIT",
        initialBalance |-> Num(0 - 5000), color |-> "bg-purple-500"] >>

AccountIds(accs) == {accs[i].id : i \in 1..Len(accs)}

\* x + y and x - y of JavaScript on numbers, NaN and undefined (a missing entry)
NumAdd(x, y) ==
    IF IsNaN(x) \/ IsNaN(y) THEN NaN ELSE FromTenths(Tenths(x) + Tenths(y))
NumSub(x, y) ==
    IF IsNaN(x) \/ IsNaN(y) THEN NaN ELSE FromTenths(Tenths(x) - Tenths(y))

\* bals[k], where a missing entry reads as undefined and undefined +/- n is NaN
Get(bals, k) == IF k \in DOMAIN bals THEN bals[k] ELSE NaN

\* bals[k] = v, which adds the key k when the object does not hold it
Put(bals, k, v) == [j \in DOMAIN bals \cup {k} |-> IF j = k THEN v ELSE bals[j]]

\* every account starting at 0 instead of its initialBalance
InitialBalancesZero(accs) == [k \in AccountIds(accs) |-> Num(0)]

\* accounts.reduce((acc, account) => { acc[account.id] = account.initialBalance ... }, {})
RECURSIVE InitialBalances(_)
InitialBalances(accs) ==
    IF accs = <<>> THEN <<>>
    ELSE Put(InitialBalances(SubSeq(accs, 1, Len(accs) - 1)),
             accs[Len(accs)].id, accs[Len(accs)].initialBalance)

\* a TRANSFER that debits its source and credits nothing
ApplyTransactionNoCredit(bals, tx) ==
    IF IsNaN(tx.amount) THEN bals
    ELSE IF tx.type = "INCOME"
         THEN Put(bals, tx.accountId, NumAdd(Get(bals, tx.accountId), tx.amount))
    ELSE IF tx.type = "EXPENSE"
         THEN Put(bals, tx.accountId, NumSub(Get(bals, tx.accountId), tx.amount))
    ELSE IF tx.type = "TRANSFER" /\ Truthy(tx.toAccountId)
         THEN Put(bals, tx.accountId, NumSub(Get(bals, tx.accountId), tx.amount))
    ELSE bals

\* a TRANSFER without toAccountId that still debits its source
ApplyTransactionDebitDangling(bals, tx) ==
    IF IsNaN(tx.amount) THEN bals
    ELSE IF tx.type = "INCOME"
         THEN Put(bals, tx.accountId, NumAdd(Get(bals, tx.accountId), tx.amount))
    ELSE IF tx.type = "EXPENSE"
         THEN Put(bals, tx.accountId, NumSub(Get(bals, tx.accountId), tx.amount))
    ELSE IF tx.type = "TRANSFER"
         THEN LET b1 == Put(bals, tx.accountId,
                            NumSub(Get(bals, tx.accountId), tx.amount))
              IN  IF Truthy(tx.toAccountId)
                  THEN Put(b1, tx.toAccountId,
                           NumAdd(Get(b1, tx.toAccountId), tx.amount))
                  ELSE b1
    ELSE bals

\* the body of transactions.forEach(tx => ...)
ApplyTransaction(bals, tx) ==
    IF IsNaN(tx.amount) THEN bals
    ELSE IF tx.type = "INCOME"
         THEN Put(bals, tx.accountId, NumAdd(Get(bals, tx.accountId), tx.amount))
    ELSE IF tx.type = "EXPENSE"
         THEN Put(bals, tx.accountId, NumSub(Get(bals, tx.accountId), tx.amount))
    ELSE IF tx.type = "TRANSFER" /\ Truthy(tx.toAccountId)
         THEN LET b1 == Put(bals, tx.accountId,
                            NumSub(Get(bals, tx.accountId), tx.amount))
              IN  Put(b1, tx.toAccountId, NumAdd(Get(b1, tx.toAccountId), tx.amount))
    ELSE bals

RECURSIVE ForEachTransaction(_, _)
ForEachTransaction(bals, txs) ==
    IF txs = <<>> THEN bals
    ELSE CHOOSE res \in {ForEachTransaction(b, Tail(txs)) :
                             b \in {ApplyTransaction(bals, Head(txs))}} : TRUE

\* the useMemo accountBalances
AccountBalances(accs, txs) == ForEachTransaction(InitialBalances(accs), txs)

\* a Transaction with an empty description, an empty location and no receipt
Transaction(id, date, amount, type, category, accountId, toAccountId, isRec) ==
    [id |-> id, date |-> date, amount |-> amount, type |-> type,
     category |-> category, description |-> <<>>, location |-> <<>>,
     accountId |-> accountId, toAccountId |-> toAccountId,
     receiptImage |-> Undefined, isRecurringInstance |-> isRec]

-----------------------------------------------------------------------------
(* Categories, the history view and handleExportCSV                        *)

\* an absent text (row[i] past the end of the row, an undefined description);
\* String(undefined) is the word undefined
NoText == <<Undefined>>
TextTruthy(t) == t \notin {<<>>, NoText}

EXPENSE_CATEGORIES ==
    << [id |-> "cat_food", name |-> <<"food">>],
       [id |-> "cat_transport", name |-> <<"transport">>],
       [id |-> "cat_shopping", name |-> <<"shopping">>],
       [id |-> "cat_bills", name |-> <<"bills">>],
       [id |-> "cat_entertainment", name |-> <<"entertainment">>],
       [id |-> "cat_health", name |-> <<"health">>],
       [id |-> "cat_education", name |-> <<"education">>],
       [id |-> "cat_travel", name |-> <<"travel">>],
       [id |-> "cat_other_exp", name |-> <<"other">>] >>

INCOME_CATEGORIES ==
    << [id |-> "cat_salary", name |-> <<"salary">>],
       [id |-> "cat_investment", name |-> <<"investment">>],
       [id |-> "cat_gift", name |-> <<"gift">>],
       [id |-> "cat_other_inc", name |-> <<"other">>] >>

TRANSFER_CATEGORY == [id |-> "cat_transfer", name |-> <<"transfer">>]

\* [...EXPENSE_CATEGORIES, ...INCOME_CATEGORIES, TRANSFER_CATEGORY]
AllCategories == EXPENSE_CATEGORIES \o INCOME_CATEGORIES \o <<TRANSFER_CATEGORY>>

\* the index of the first element of the sequence that satisfies Test, or 0
FindIndex(seq, Test(_)) ==
    IF \E i \in 1..Len(seq) : Test(seq[i])
    THEN CHOOSE i \in 1..Len(seq) :
            Test(seq[i]) /\ \A j \in 1..(i - 1) : ~Test(seq[j])
    ELSE 0

\* allCats.find(c => c.id === tx.category)?.name || tx.category
CategoryLabel(catId) ==
    LET i == FindIndex(AllCategories, LAMBDA c : c.id = catId)
    IN  IF i # 0 THEN AllCategories[i].name ELSE <<catId>>

\* accounts.find(a => a.id === id)?.name || ''
AccountLabel(accs, id) ==
    LET i == FindIndex(accs, LAMBDA a : a.id = id)
    IN  IF i # 0 /\ TextTruthy(accs[i].name) THEN accs[i].name ELSE <<>>

\* a stored date string: a calendar date is the triple, any other string is
\* kept as the one-element tuple of its text
RawDate(text) == <<text>>
IsDate(d) == Len(d) = 3

Pad2(n) == IF n < 10 THEN <<"0">> \o NatToText(n) ELSE NatToText(n)

\* the characters of a stored date string
DateToText(d) ==
    IF IsDate(d) THEN NatToText(d[1]) \o <<"-">> \o Pad2(d[2]) \o <<"-">> \o Pad2(d[3])
    ELSE d[1]

\* a <= b of two date strings; a string that is not a date starts with a
\* letter and sorts after every date
DateStrLE(a, b) ==
    IF IsDate(a) /\ IsDate(b) THEN DateLE(a, b)
    ELSE IF IsDate(a) THEN TRUE
    ELSE IF IsDate(b) THEN FALSE
    ELSE a = b

INITIAL_FILTERS ==
    [startDate |-> NoDate, endDate |-> NoDate, type |-> "ALL", categoryId |-> "",
     minAmount |-> <<>>, maxAmount |-> <<>>]

\* s.includes(term): term occurs in s as a run of adjacent tokens
IncludesText(s, term) ==
    \E i \in 1..(Len(s) - Len(term) + 1) : SubSeq(s, i, i + Len(term) - 1) = term

\* x >= y and x <= y of numbers: false as soon as one of them is NaN
NumGE(x, y) == ~IsNaN(x) /\ ~IsNaN(y) /\ Tenths(x) >= Tenths(y)
NumLE(x, y) == ~IsNaN(x) /\ ~IsNaN(y) /\ Tenths(x) <= Tenths(y)

\* the test of the search box on one transaction (description is a string
\* for every transaction of the model)
MatchesSearch(tx, term) ==
    \/ IncludesText(tx.description, term)
    \/ TextTruthy(tx.location) /\ IncludesText(tx.location, term)
    \/ LET i == FindIndex(AllCategories, LAMBDA c : c.id = tx.category)
       IN  IncludesText(IF i # 0 THEN AllCategories[i].name ELSE <<>>, term)

\* the useMemo filteredTransactions
FilteredTransactions(txs, term, f) ==
    LET Keep(tx) ==
            /\ Trim(term) # <<>> => MatchesSearch(tx, term)
            /\ f.startDate # NoDate => DateStrLE(f.startDate, tx.date)
            /\ f.endDate # NoDate => DateStrLE(tx.date, f.endDate)
            /\ f.type # "ALL" => tx.type = f.type
            /\ f.categoryId # "" => tx.category = f.categoryId
            /\ f.minAmount # <<>> => NumGE(tx.amount, parseFloat(f.minAmount))
            /\ f.maxAmount # <<>> => NumLE(tx.amount, parseFloat(f.maxAmount))
    IN  SelectSeq(txs, Keep)

\* new Date(date).getTime() as a day count that grows with the date
DayNumber(d) == (d[1] * 12 + d[2]) * 31 + d[3]

\* the comparator of data.sort: negative, zero or positive, for transactions
\* whose dates are calendar dates and whose amounts are numbers.  With the key
\* date and the direction asc it subtracts the time of a from the time of a.
Compare(a, b, cfg) ==
    IF cfg.key = "date"
    THEN IF cfg.direction = "asc" THEN DayNumber(a.date) - DayNumber(a.date)
         ELSE DayNumber(b.date) - DayNumber(a.date)
    ELSE IF cfg.direction = "asc" THEN Tenths(a.amount) - Tenths(b.amount)
         ELSE Tenths(b.amount) - Tenths(a.amount)

\* x put into the sorted sequence after every element that does not come
\* after it (Array.prototype.sort is stable)
RECURSIVE InsertSorted(_, _, _)
InsertSorted(sorted, x, cfg) ==
    IF sorted = <<>> THEN <<x>>
    ELSE IF Compare(sorted[Len(sorted)], x, cfg) <= 0 THEN Append(sorted, x)
    ELSE Append(InsertSorted(SubSeq(sorted, 1, Len(sorted) - 1), x, cfg),
                sorted[Len(sorted)])

RECURSIVE SortFrom(_, _, _)
SortFrom(sorted, rest, cfg) ==
    IF rest = <<>> THEN sorted
    ELSE SortFrom(InsertSorted(sorted, Head(rest), cfg), Tail(rest), cfg)

\* the useMemo sortedTransactions
SortedTransactions(txs, term, f, cfg) ==
    SortFrom(<<>>, FilteredTransactions(txs, term, f), cfg)

\* the labels of the type column: income, expense, transfer, and the two
\* labels of the account export
TypeLabel(type) ==
    IF type = "INCOME" THEN <<"income">>
    ELSE IF type = "EXPENSE" THEN <<"expense">>
    ELSE <<"transfer">>

\* `"${String(v).replace(/"/g, '""')}"`
QuoteCell(v) == <<QUOTE>> \o EscapeQuotes(v) \o <<QUOTE>>

\* the header cells: date, type, amount, category, note, place, account,
\* destination account
CsvHeaders ==
    << <<"date">>, <<"type">>, <<"amount">>, <<"category">>, <<"note">>,
       <<"place">>, <<"account">>, <<"toAccount">> >>

\* the cells of one exported row, before quoting
ExportCells(tx, accs) ==
    << DateToText(tx.date),
       TypeLabel(tx.type),
       NumberToText(MathRound(tx.amount)),
       CategoryLabel(tx.category),
       tx.description,
       IF TextTruthy(tx.location) THEN tx.location ELSE <<>>,
       AccountLabel(accs, tx.accountId),
       IF Truthy(tx.toAccountId) THEN AccountLabel(accs, tx.toAccountId) ELSE <<>> >>

ExportRow(tx, accs) ==
    LET cells == ExportCells(tx, accs)
    IN  Join([i \in 1..Len(cells) |-> QuoteCell(cells[i])], COMMA)

\* the text of the Blob: the byte-order mark + [headers.join(','), ...rows].join('\n')
ExportText(rows, accs) ==
    <<BOM>> \o Join(<<Join(CsvHeaders, COMMA)>>
                    \o [i \in 1..Len(rows) |-> ExportRow(rows[i], accs)], NEWLINE)

-----------------------------------------------------------------------------
(* handleImportCSV and restoreDataFromGoogleSheets                         *)

ACCOUNT_COLORS ==
    <<"bg-orange-500", "bg-blue-500", "bg-purple-500", "bg-green-500", "bg-red-500",
      "bg-teal-500", "bg-indigo-500", "bg-pink-500", "bg-gray-600">>

\* dateStr.replace(/_/g, '-').replace(/\//g, '-').replace(/\./g, '-')
NormalizeSeparators(s) ==
    [i \in 1..Len(s) |-> IF s[i] \in {"_", "/", "."} THEN "-" ELSE s[i]]

AllDigits(s) == s # <<>> /\ \A i \in 1..Len(s) : IsDigit(s[i])

\* new Date(s) on a year-month-day string, as its local calendar date; NoDate
\* for an Invalid Date.  A day past the end of its month carries over; the
\* other formats Date accepts do not occur in the texts parsed.
ParseDate(s) ==
    LET parts == Split(s, "-")
    IN  IF /\ Len(parts) = 3
           /\ \A i \in 1..3 : AllDigits(parts[i])
           /\ Len(parts[1]) = 4 /\ Len(parts[2]) <= 2 /\ Len(parts[3]) <= 2
        THEN LET y == TextToNat(parts[1])
                 m == TextToNat(parts[2])
                 d == TextToNat(parts[3])
             IN  IF m \in 1..12 /\ d \in 1..31 THEN MakeDay(y, m, d) ELSE NoDate
        ELSE NoDate

\* the stored form of the date string with the characters text
DateOfText(text) ==
    LET d == ParseDate(text)
    IN  IF d # NoDate /\ DateToText(d) = text THEN d ELSE RawDate(text)

\* normalizeDate of handleImportCSV
normalizeDate(str) ==
    LET d == ParseDate(NormalizeSeparators(str))
    IN  IF d = NoDate THEN DateOfText(str) ELSE d

\* line.split(/,(?=(?:(?:[^"]*"){2})*[^"]*$)/): the line is cut at every comma
\* that has an even number of quotes after it
SplitCells(line) ==
    SplitAt(line, {i \in 1..Len(line) :
                      /\ line[i] = COMMA
                      /\ CountQuotes(SubSeq(line, i + 1, Len(line))) % 2 = 0})

\* ... .map(v => v.trim().replace(/^"|"$/g, '').replace(/""/g, '"'))
ParseRow(line) ==
    LET cells == SplitCells(line)
    IN  [i \in 1..Len(cells) |-> UnescapeQuotes(StripOuterQuotes(Trim(cells[i])))]

\* row[i - 1], undefined past the end of the row
Cell(row, i) == IF i <= Len(row) THEN row[i] ELSE NoText

\* the id of the account made while the list holds n accounts, in the run
\* started at the time clk
NewAccountId(clk, n) == "acc_" \o ToString(clk) \o "_" \o ToString(n)

\* the account pushed for a name that is not in the list
NewAccount(accs, name, clk) ==
    [id |-> NewAccountId(clk, Len(accs)), name |-> name, type |-> "CASH",
     initialBalance |-> Num(0),
     color |-> ACCOUNT_COLORS[(Len(accs) % Len(ACCOUNT_COLORS)) + 1]]

\* a lookup that always makes a new account
getOrCreateAccountIdAlwaysNew(updatedAccounts, name, clk) ==
    IF ~TextTruthy(name) THEN [id |-> "", accounts |-> updatedAccounts]
    ELSE [id |-> NewAccountId(clk, Len(updatedAccounts)),
          accounts |-> Append(updatedAccounts, NewAccount(updatedAccounts, name, clk))]

\* getOrCreateAccountId(name): the id, and updatedAccounts after the call
getOrCreateAccountId(updatedAccounts, name, clk) ==
    IF ~TextTruthy(name) THEN [id |-> "", accounts |-> updatedAccounts]
    ELSE LET i == FindIndex(updatedAccounts, LAMBDA a : a.name = name)
         IN  IF i # 0 THEN [id |-> updatedAccounts[i].id, accounts |-> updatedAccounts]
             ELSE [id |-> NewAccountId(clk, Len(updatedAccounts)),
                   accounts |-> Append(updatedAccounts,
                                       NewAccount(updatedAccounts, name, clk))]

\* getCategoryId(name, type), and getCategoryIdByName of the restore
getCategoryId(name, type) ==
    LET i == FindIndex(AllCategories, LAMBDA c : c.name = name)
    IN  IF i # 0 THEN AllCategories[i].id
        ELSE IF type = "INCOME" THEN "cat_other_inc"
        ELSE IF type = "TRANSFER" THEN "cat_transfer"
        ELSE "cat_other_exp"

\* the type of a row from the label of its type column
TypeOfLabel(typeRaw) ==
    IF typeRaw = <<"income">> THEN "INCOME"
    ELSE IF typeRaw \in {<<"transfer">>, <<"transferIn">>, <<"transferOut">>}
         THEN "TRANSFER"
    ELSE "EXPENSE"

\* the row is left out: if (isNaN(amount) || !date) continue
RowSkipped(amount, date) == IsNaN(amount) \/ date = RawDate(<<>>)

\* the body of the for loop for lines[i] (i counts from 0); st holds
\* updatedAccounts and newTransactions, accs is the accounts of the closure
ImportLine(st, rawLine, i, accs, clk) ==
    LET line == Trim(rawLine)
        row == ParseRow(line)
        date == normalizeDate(Cell(row, 1))
        amount == parseFloat(Cell(row, 3))
        type == TypeOfLabel(Cell(row, 2))
        src == getOrCreateAccountId(st.accounts, Cell(row, 7), clk)
        toNamed == type = "TRANSFER" /\ TextTruthy(Cell(row, 8))
        dst == IF toNamed THEN getOrCreateAccountId(src.accounts, Cell(row, 8), clk)
               ELSE [id |-> Undefined, accounts |-> src.accounts]
        fallback == IF accs # <<>> THEN accs[1].id ELSE Undefined
        tx == [id |-> <<"import", clk, i>>, date |-> date, amount |-> amount,
               type |-> type, category |-> getCategoryId(Cell(row, 4), type),
               description |-> Cell(row, 5), location |-> Cell(row, 6),
               accountId |-> IF src.id # "" THEN src.id ELSE fallback,
               toAccountId |-> dst.id,
               receiptImage |-> Undefined, isRecurringInstance |-> FALSE]
    IN  IF line = <<>> \/ Len(row) < 3 \/ RowSkipped(amount, date) THEN st
        ELSE [accounts |-> dst.accounts, txs |-> Append(st.txs, tx)]

RECURSIVE ImportLines(_, _, _, _, _)
ImportLines(st, lines, i, accs, clk) ==
    IF i >= Len(lines) THEN st
    ELSE ImportLines(ImportLine(st, lines[i + 1], i, accs, clk), lines, i + 1, accs, clk)

\* the test on the first line: it holds the words for date and for amount
HeaderAccepted(firstLine) ==
    Includes(firstLine, "date") /\ Includes(firstLine, "amount")

\* reader.onload up to the end of the loop: whether the header passed, and
\* updatedAccounts and newTransactions
ImportResult(text, accs, clk) ==
    LET lines0 == Split(text, NEWLINE)
        first0 == lines0[1]
        first == IF first0 # <<>> /\ Head(first0) = BOM THEN Tail(first0) ELSE first0
        firstLine == RemoveQuotes(first)
        st == ImportLines([accounts |-> accs, txs |-> <<>>], lines0, 1, accs, clk)
    IN  IF text = <<>> \/ ~HeaderAccepted(firstLine)
        THEN [accepted |-> FALSE, accounts |-> accs, txs |-> <<>>]
        ELSE [accepted |-> TRUE, accounts |-> st.accounts, txs |-> st.txs]

\* the transaction list after setTransactions(prev => [...newTransactions, ...prev])
CommitImportedFirst(prev, newTransactions) == newTransactions \o prev

\* setTransactions(prev => [...prev, ...newTransactions])
CommitImported(prev, newTransactions) == prev \o newTransactions

\* the body of range.values.forEach(row => ...) for the k-th row: st holds the
\* transactions (accountId and toAccountId hold the account names) and the
\* account names collected
RestoreRow(st, row, k) ==
    LET amount == parseFloat(SelectSeq(IF Len(row) >= 3 THEN row[3] ELSE <<>>,
                                       LAMBDA c : c # COMMA))
        type == TypeOfLabel(Cell(row, 2))
        OrEmpty(t) == IF TextTruthy(t) THEN t ELSE <<>>
        accountName == OrEmpty(Cell(row, 7))
        toAccountName == OrEmpty(Cell(row, 8))
        tx == [id |-> <<"restored", k>>, date |-> DateOfText(Cell(row, 1)),
               type |-> type, amount |-> IF IsNaN(amount) THEN Num(0) ELSE amount,
               category |-> getCategoryId(Cell(row, 4), type),
               description |-> OrEmpty(Cell(row, 5)),
               location |-> OrEmpty(Cell(row, 6)),
               accountId |-> accountName, toAccountId |-> toAccountName]
    IN  IF Len(row) < 3 THEN st
        ELSE [transactions |-> Append(st.transactions, tx),
              accountNames |-> st.accountNames
                  \cup (IF accountName # <<>> THEN {accountName} ELSE {})
                  \cup (IF toAccountName # <<>> THEN {toAccountName} ELSE {})]

RECURSIVE RestoreRows(_, _, _)
RestoreRows(st, rows, k) ==
    IF k > Len(rows) THEN st
    ELSE RestoreRows(RestoreRow(st, rows[k], k), rows, k + 1)

\* restoreDataFromGoogleSheets on the rows of the value ranges, one range after
\* the other
RestoreResult(rows) == RestoreRows([transactions |-> <<>>, accountNames |-> {}], rows, 1)

-----------------------------------------------------------------------------
(* SpecBalance: accountBalances applied to bounded account and transaction  *)
(* lists.  The list grows at the front (handleSaveTransaction, the         *)
(* catch-up effect) or at the end (handleImportCSV); every render          *)
(* recomputes the map.                                                     *)

MaxTxLen == 2

\* the account list as constructed, and after handleDeleteAccount("acc_3")
HarnessAccountLists == {INITIAL_ACCOUNTS, SubSeq(INITIAL_ACCOUNTS, 1, 2)}

HarnessAmounts == {Num(3), Num(5), NaN}
HarnessDate == <<2024, 1, 31>>

HarnessTransactions ==
    {Transaction(<<"tx", 0>>, HarnessDate, a, ty, "cat_other_exp", x, Undefined, FALSE) :
        a \in HarnessAmounts, ty \in {"INCOME", "EXPENSE"}, x \in {"acc_1", "acc_3"}}
    \cup
    {Transaction(<<"tx", 0>>, HarnessDate, a, "TRANSFER", "cat_transfer", x, y, FALSE) :
        a \in HarnessAmounts, x \in {"acc_1", "acc_3"},
        y \in {Undefined, "", "acc_1", "acc_2"}}

NoTransaction == Transaction(<<>>, NoDate, NaN, "", "", "", Undefined, FALSE)

\* no run of the catch-up effect yet
NoPass ==
    [ran |-> FALSE, today |-> NoDate, before |-> <<>>, base |-> <<>>,
     after |-> <<>>,
     instances |-> <<>>, prevRan |-> FALSE, prevToday |-> NoDate,
     prevAfter |-> <<>>, prevCounts |-> <<>>]

AppIdle ==
    /\ recurringTransactions = <<>>
    /\ today = HarnessDate
    /\ phase = "idle"
    /\ effectDue = FALSE
    /\ lastPass = NoPass
    /\ renderedPending = FALSE
    /\ clock = 0

DateIdle ==
    /\ dateStr = NoDate
    /\ freq = "DAILY"
    /\ prevDate = NoDate
    /\ startDate = NoDate
    /\ steps = 0

\* the history view as constructed
ViewIdle ==
    /\ searchTerm = <<>>
    /\ filters = INITIAL_FILTERS
    /\ sortConfig = [key |-> "date", direction |-> "desc"]

\* no import, export or restore yet
NoImport ==
    [ran |-> FALSE, text |-> <<>>, accepted |-> FALSE, clock |-> 0,
     accountsBefore |-> <<>>, transactionsBefore |-> <<>>,
     accountsAfter |-> <<>>, transactionsAfter |-> <<>>, newTransactions |-> <<>>]

NoExport ==
    [ran |-> FALSE, text |-> <<>>, rows |-> <<>>, accounts |-> <<>>,
     transactions |-> <<>>]

NoRestore == [ran |-> FALSE, rows |-> <<>>, transactions |-> <<>>, accountNames |-> {}]

IoIdle ==
    /\ lastImport = NoImport
    /\ exported = NoExport
    /\ restored = NoRestore

\* draggedAccountIndex === null
NoIndex == 0 - 1

NoReorder ==
    [ran |-> FALSE, op |-> "", from |-> 0, to |-> 0, before |-> <<>>, after |-> <<>>,
     transactions |-> <<>>]

AccIdle ==
    /\ draggedAccountIndex = NoIndex
    /\ lastReorder = NoReorder

\* localStorage without a snapshot under STORAGE_KEY
NoSnapshot ==
    [saved |-> FALSE, accounts |-> <<>>, transactions |-> <<>>,
     recurringTransactions |-> <<>>, theme |-> ""]

\* no run of saveData yet
NoStore ==
    [ran |-> FALSE, quotaHit |-> FALSE, stored |-> FALSE, attempts |-> <<>>,
     before |-> NoSnapshot, after |-> NoSnapshot, quota |-> 0,
     accounts |-> <<>>, transactions |-> <<>>, recurringTransactions |-> <<>>,
     theme |-> "", memoryAfter |-> <<>>]

StoreIdle ==
    /\ storage = NoSnapshot
    /\ quota = 0
    /\ currentTheme = "default"
    /\ lastStore = NoStore

LedgerIdle == ViewIdle /\ IoIdle /\ AccIdle /\ StoreIdle

BalanceInit ==
    /\ accounts \in HarnessAccountLists
    /\ transactions = <<>>
    /\ accountBalances = AccountBalances(accounts, transactions)
    /\ prevBalances = accountBalances
    /\ lastAdded = NoTransaction
    /\ AppIdle
    /\ DateIdle
    /\ LedgerIdle

PrependTransaction(tx) ==
    /\ Len(transactions) < MaxTxLen
    /\ transactions' = <<tx>> \o transactions
    /\ accountBalances' = AccountBalances(accounts, transactions')
    /\ prevBalances' = accountBalances
    /\ lastAdded' = tx
    /\ UNCHANGED <<accounts, recurringTransactions, today, phase, effectDue,
                   lastPass, renderedPending, clock, dateVars, ledgerVars>>

AppendTransaction(tx) ==
    /\ Len(transactions) < MaxTxLen
    /\ transactions' = Append(transactions, tx)
    /\ accountBalances' = AccountBalances(accounts, transactions')
    /\ prevBalances' = accountBalances
    /\ lastAdded' = tx
    /\ UNCHANGED <<accounts, recurringTransactions, today, phase, effectDue,
                   lastPass, renderedPending, clock, dateVars, ledgerVars>>

BalanceNext ==
    \/ \E tx \in HarnessTransactions : PrependTransaction(tx)
    \/ \E tx \in HarnessTransactions : AppendTransaction(tx)

SpecBalance == BalanceInit /\ [][BalanceNext]_vars

\* amounts are numbers and every account reference names a listed account
WellFormed(accs, txs) ==
    \A i \in 1..Len(txs) :
        /\ ~IsNaN(txs[i].amount)
        /\ txs[i].accountId \in AccountIds(accs)
        /\ txs[i].type = "TRANSFER" => txs[i].toAccountId \in AccountIds(accs)

\* the signed amount the transaction tx contributes to the account id
Contribution(tx, id) ==
    (IF tx.type = "INCOME" /\ tx.accountId = id THEN Val(tx.amount) ELSE 0)
    - (IF tx.type = "EXPENSE" /\ tx.accountId = id THEN Val(tx.amount) ELSE 0)
    - (IF tx.type = "TRANSFER" /\ tx.accountId = id THEN Val(tx.amount) ELSE 0)
    + (IF tx.type = "TRANSFER" /\ tx.toAccountId = id THEN Val(tx.amount) ELSE 0)

RECURSIVE SumContributions(_, _, _)
SumContributions(txs, id, n) ==
    IF n = 0 THEN 0 ELSE SumContributions(txs, id, n - 1) + Contribution(txs[n], id)

Permuted(txs, p) == [i \in 1..Len(txs) |-> txs[p[i]]]

\* C1: for unique account ids, numeric amounts and references to listed accounts,
\* the balance map holds exactly the listed accounts, each with initialBalance
\* + incomes - expenses - transfers out + transfers in (an account without
\* transactions keeps its initialBalance), and every permutation of the
\* transaction list gives the same map.
C1_BalanceFormula ==
    WellFormed(accounts, transactions) =>
        /\ DOMAIN accountBalances = AccountIds(accounts)
        /\ \A i \in 1..Len(accounts) :
              accountBalances[accounts[i].id] =
                  Num(Val(accounts[i].initialBalance)
                      + SumContributions(transactions, accounts[i].id, Len(transactions)))
        /\ \A p \in Permutations(1..Len(transactions)) :
              AccountBalances(accounts, Permuted(transactions, p)) = accountBalances

C1_Witness ==
    /\ WellFormed(accounts, transactions)
    /\ Len(transactions) = 2
    /\ transactions[1].type = "TRANSFER"
    /\ transactions[2].type = "EXPENSE"
    /\ Len(accounts) = 3
    /\ accountBalances["acc_3"] = accounts[3].initialBalance
    /\ accountBalances["acc_1"] # accounts[1].initialBalance

RECURSIVE SumBalances(_, _)
SumBalances(bals, ids) ==
    IF ids = {} THEN 0
    ELSE LET k == CHOOSE k \in ids : TRUE
         IN  Val(bals[k]) + SumBalances(bals, ids \ {k})

\* the transaction added last is a TRANSFER of a numeric amount between two
\* different listed accounts
TransferAdded ==
    /\ lastAdded.type = "TRANSFER"
    /\ ~IsNaN(lastAdded.amount)
    /\ lastAdded.accountId \in AccountIds(accounts)
    /\ lastAdded.toAccountId \in AccountIds(accounts)
    /\ lastAdded.accountId # lastAdded.toAccountId

\* C2: adding one TRANSFER of amount A from a listed account X to another listed
\* account Y lowers balance[X] by A, raises balance[Y] by A, keeps
\* balance[X] + balance[Y] and the total over the accounts, and changes no other
\* entry of the map.
C2_TransferSymmetry ==
    TransferAdded =>
        LET X == lastAdded.accountId
            Y == lastAdded.toAccountId
            A == Val(lastAdded.amount)
        IN  /\ accountBalances[X] = Num(Val(prevBalances[X]) - A)
            /\ accountBalances[Y] = Num(Val(prevBalances[Y]) + A)
            /\ Val(accountBalances[X]) + Val(accountBalances[Y])
                   = Val(prevBalances[X]) + Val(prevBalances[Y])
            /\ SumBalances(accountBalances, AccountIds(accounts))
                   = SumBalances(prevBalances, AccountIds(accounts))
            /\ DOMAIN accountBalances = DOMAIN prevBalances
            /\ \A k \in DOMAIN accountBalances \ {X, Y} :
                   accountBalances[k] = prevBalances[k]

C2_Witness ==
    /\ TransferAdded
    /\ Len(transactions) = 2
    /\ lastAdded.amount = Num(5)
    /\ accountBalances["acc_1"] # prevBalances["acc_1"]
    /\ accountBalances["acc_2"] # prevBalances["acc_2"]

\* the transaction added last is a TRANSFER of a numeric amount out of a listed
\* account whose toAccountId is missing (undefined) or empty ('')
DanglingTransferAdded ==
    /\ lastAdded.type = "TRANSFER"
    /\ ~IsNaN(lastAdded.amount)
    /\ lastAdded.accountId \in AccountIds(accounts)
    /\ ~Truthy(lastAdded.toAccountId)

\* C3 as claimed: a TRANSFER without toAccountId still debits its source account
\* by the amount, and credits no account.
C3_SourceStillDebited ==
    DanglingTransferAdded =>
        /\ accountBalances[lastAdded.accountId] =
               Num(Val(prevBalances[lastAdded.accountId]) - Val(lastAdded.amount))
        /\ \A k \in DOMAIN accountBalances \ {lastAdded.accountId} :
               k \in DOMAIN prevBalances /\ accountBalances[k] = prevBalances[k]

\* C3, amended: a TRANSFER without toAccountId is skipped as a whole: the map is
\* computed (no failure), no account is debited and none is credited.
C3_DanglingTransferSkipped ==
    DanglingTransferAdded => accountBalances = prevBalances

C3_Witness ==
    /\ DanglingTransferAdded
    /\ lastAdded.amount = Num(5)
    /\ lastAdded.toAccountId = ""
    /\ Len(transactions) = 2
    /\ accountBalances = prevBalances
    /\ accountBalances["acc_1"] # accounts[1].initialBalance

-----------------------------------------------------------------------------
(* SpecDate: getNextDate applied again and again to a due date, as the     *)
(* catch-up loop does (tempRt.nextDueDate = getNextDate(...)).             *)

MaxSteps == 7

StartYears == {2023, 2024}

StartDates ==
    {<<y, m, d>> : y \in StartYears, m \in 1..12, d \in 1..31} \cap
    {x \in StartYears \X (1..12) \X (1..31) : x[3] <= DaysInMonth(x[1], x[2])}

BalanceIdle ==
    /\ accounts = INITIAL_ACCOUNTS
    /\ transactions = <<>>
    /\ accountBalances = <<>>
    /\ prevBalances = <<>>
    /\ lastAdded = NoTransaction

DateInit ==
    /\ dateStr \in StartDates
    /\ freq \in Frequency
    /\ prevDate = NoDate
    /\ startDate = dateStr
    /\ steps = 0
    /\ BalanceIdle
    /\ AppIdle
    /\ LedgerIdle

StepDate ==
    /\ steps < MaxSteps
    /\ dateStr' = getNextDate(dateStr, freq)
    /\ prevDate' = dateStr
    /\ steps' = steps + 1
    /\ UNCHANGED <<freq, startDate, appVars, balVars, ledgerVars>>

DateNext == StepDate

SpecDate == DateInit /\ [][DateNext]_vars

MonthIndex(d) == d[1] * 12 + d[2]

C8_StepIsTwoMonths ==
    (/\ steps >= 1
     /\ freq \in {"BI_MONTHLY_ODD", "BI_MONTHLY_EVEN"}
     /\ ParityOk(freq, prevDate[2]))
        => MonthIndex(dateStr) = MonthIndex(prevDate) + 2

NextMonthOf(d) == IF d[2] = 12 THEN <<d[1] + 1, 1>> ELSE <<d[1], d[2] + 1>>

\* the last day of the month after d's
ClampDate(d) ==
    LET nm == NextMonthOf(d)
    IN  <<nm[1], nm[2], DaysInMonth(nm[1], nm[2])>>

\* day d minus the length of the month after d's, in the month after that
OverflowDate(d) ==
    LET nm == NextMonthOf(d)
        nn == NextMonthOf(<<nm[1], nm[2], 1>>)
    IN  <<nn[1], nn[2], d[3] - DaysInMonth(nm[1], nm[2])>>

-----------------------------------------------------------------------------
(* The application: handleSaveTransaction, deleteRecurring, the renders    *)
(* and the recurring catch-up effect.                                      *)

RecurringTransaction(id, frequency, start, nextDue, endDate, data) ==
    [id |-> id, frequency |-> frequency, startDate |-> start,
     nextDueDate |-> nextDue, endDate |-> endDate, lastGenerated |-> NoDate,
     amount |-> data.amount, type |-> data.type, category |-> data.category,
     description |-> data.description, location |-> data.location,
     accountId |-> data.accountId, toAccountId |-> data.toAccountId]

\* a loop bound one too high (loopCount <= 12), and one far too low
LoopCapOffByOne == 12 + 1
LoopCapTwo == 12 - 10

\* a loop that is never entered
LoopCapNone == 12 - 12

\* while (... && loopCount < 12)
LoopCap == 12

\* the end date compared with startDate instead of nextDueDate
PastEndOfStart(rt) == rt.endDate # NoDate /\ DateLT(rt.endDate, rt.startDate)

\* if (tempRt.endDate && tempRt.nextDueDate > tempRt.endDate) break;
PastEnd(rt) == rt.endDate # NoDate /\ DateLT(rt.endDate, rt.nextDueDate)

\* the condition under which the while loop emits one more instance
LoopContinues(rt, tday, loopCount) ==
    /\ DateLE(rt.nextDueDate, tday)
    /\ loopCount < LoopCap
    /\ ~PastEnd(rt)

\* an instance dated at the start date of its template
NewInstanceAtStart(rt) ==
    [Transaction(<<"auto", rt.id[2], rt.nextDueDate>>, rt.startDate, rt.amount,
                 rt.type, rt.category, rt.accountId, rt.toAccountId, TRUE)
        EXCEPT !.description = rt.description \o <<" ", "(auto)">>,
               !.location = rt.location]

\* newTx of the loop body; the random suffix of its id makes it unique, as the
\* template id and the due date do here
NewInstance(rt) ==
    [Transaction(<<"auto", rt.id[2], rt.nextDueDate>>, rt.nextDueDate, rt.amount,
                 rt.type, rt.category, rt.accountId, rt.toAccountId, TRUE)
        EXCEPT !.description = rt.description \o <<" ", "(auto)">>,
               !.location = rt.location]

\* the while loop for one template: the advanced template and its instances
RECURSIVE CatchUp(_, _, _, _)
CatchUp(rt, tday, loopCount, txs) ==
    IF LoopContinues(rt, tday, loopCount)
    THEN CHOOSE res \in
             {CatchUp(tempRt, tday, loopCount + 1, newTransactions) :
                 tempRt \in {[rt EXCEPT !.lastGenerated = rt.nextDueDate,
                                        !.nextDueDate =
                                            getNextDate(rt.nextDueDate, rt.frequency)]},
                 newTransactions \in {Append(txs, NewInstance(rt))}} : TRUE
    ELSE [rt |-> rt, txs |-> txs]

\* recurringTransactions.map(rt => ...)
CatchUpAll(rts, tday) == [i \in 1..Len(rts) |-> CatchUp(rts[i], tday, 0, <<>>)]

RECURSIVE Flatten(_)
Flatten(ss) == IF ss = <<>> THEN <<>> ELSE Head(ss) \o Flatten(Tail(ss))

\* a template that the while loop would emit an instance for
IsDue(rt, tday) == DateLE(rt.nextDueDate, tday) /\ ~PastEnd(rt)

MaxSaves == 1

Todays == {<<2024, 2, 16>>, <<2024, 2, 29>>}
FormDates == {<<2024, 2, 16>>, <<2024, 2, 29>>}
FormEndDates == {NoDate, <<2024, 2, 20>>}

\* what handleSubmit of TransactionForm passes to onSubmit
FormData ==
    {[type |-> "EXPENSE", amount |-> Num(100), date |-> d, category |-> "cat_food",
      description |-> <<"lunch">>, location |-> <<>>,
      accountId |-> "acc_1", toAccountId |-> Undefined,
      isRecurring |-> r, frequency |-> f, endDate |-> e] :
        d \in FormDates, r \in BOOLEAN, f \in Frequency, e \in FormEndDates}

\* frequency and endDate are passed only for a recurring entry, and the end
\* date input has min = date
FormDataOk(data) ==
    IF data.isRecurring
    THEN data.endDate = NoDate \/ DateLE(data.date, data.endDate)
    ELSE data.frequency = "DAILY" /\ data.endDate = NoDate

NoId == <<>>

HarnessIdle ==
    /\ prevBalances = <<>>
    /\ lastAdded = NoTransaction

\* the transaction lists of the snapshots the application is started from:
\* none saved yet, or one entry saved by an earlier session
StoredTransactions ==
    {<<>>,
     <<Transaction(<<"tx", 0 - 1>>, <<2024, 2, 10>>, Num(250), "INCOME",
                   "cat_salary", "acc_2", Undefined, FALSE)>>}

Init ==
    /\ accounts = INITIAL_ACCOUNTS
    /\ transactions \in StoredTransactions
    /\ recurringTransactions = <<>>
    /\ accountBalances = <<>>
    /\ today \in Todays
    /\ phase = "render"
    /\ effectDue = TRUE
    /\ lastPass = NoPass
    /\ renderedPending = FALSE
    /\ clock = 0
    /\ HarnessIdle
    /\ DateIdle
    /\ LedgerIdle

\* a render of App: the useMemo accountBalances is evaluated; the catch-up
\* effect is scheduled when recurringTransactions changed (or on mount)
Render ==
    /\ phase = "render"
    /\ accountBalances' = AccountBalances(accounts, transactions)
    /\ renderedPending' =
           \E i \in 1..Len(recurringTransactions) : IsDue(recurringTransactions[i], today)
    /\ phase' = IF effectDue THEN "effect" ELSE "idle"
    /\ UNCHANGED <<accounts, transactions, recurringTransactions, today, effectDue,
                   lastPass, clock, balVars, dateVars, ledgerVars>>

\* the useEffect on [recurringTransactions]
SchedulerPass ==
    /\ phase = "effect"
    /\ LET res == CatchUpAll(recurringTransactions, today)
           updatedRecurrings == [i \in 1..Len(res) |-> res[i].rt]
           instances == [i \in 1..Len(res) |-> res[i].txs]
           newTransactions == Flatten(instances)
           hasChanges == \E i \in 1..Len(res) : res[i].txs # <<>>
       IN  /\ transactions' = IF hasChanges THEN newTransactions \o transactions
                                            ELSE transactions
           /\ recurringTransactions' = IF hasChanges THEN updatedRecurrings
                                                     ELSE recurringTransactions
           /\ effectDue' = hasChanges
           /\ phase' = IF hasChanges THEN "render" ELSE "idle"
           /\ lastPass' = [ran |-> TRUE, today |-> today,
                           before |-> recurringTransactions,
                           base |-> recurringTransactions,
                           after |-> recurringTransactions',
                           instances |-> instances,
                           prevRan |-> lastPass.ran,
                           prevToday |-> lastPass.today,
                           prevAfter |-> lastPass.after,
                           prevCounts |-> [i \in 1..Len(lastPass.instances) |->
                                              Len(lastPass.instances[i])]]
    /\ UNCHANGED <<accounts, accountBalances, today, renderedPending, clock,
                   balVars, dateVars, ledgerVars>>

\* handleSaveTransaction(data, isDuplicate) with the editingId of the open form
SaveTransaction(data, editingId, isDuplicate) ==
    /\ phase = "idle"
    /\ clock < MaxSaves
    /\ clock' = clock + 1
    /\ LET safeAmount == IF IsNaN(data.amount) THEN Num(0) ELSE data.amount
           editing == editingId # NoId
           newRecurring ==
               RecurringTransaction(<<"rec", clock>>, data.frequency, data.date,
                   IF editing /\ ~isDuplicate
                   THEN getNextDate(data.date, data.frequency) ELSE data.date,
                   data.endDate, [data EXCEPT !.amount = safeAmount])
           shouldSaveTransaction == ~data.isRecurring \/ editing \/ isDuplicate
           merged(t) == [t EXCEPT !.date = data.date, !.amount = safeAmount,
                                  !.type = data.type, !.category = data.category,
                                  !.description = data.description,
                                  !.location = data.location,
                                  !.accountId = data.accountId,
                                  !.toAccountId = data.toAccountId]
       IN  /\ recurringTransactions' =
                  IF data.isRecurring THEN Append(recurringTransactions, newRecurring)
                  ELSE recurringTransactions
           /\ transactions' =
                  IF ~shouldSaveTransaction THEN transactions
                  ELSE IF editing /\ ~isDuplicate
                  THEN [i \in 1..Len(transactions) |->
                           IF transactions[i].id = editingId
                           THEN merged(transactions[i]) ELSE transactions[i]]
                  ELSE <<[Transaction(<<"tx", clock>>, data.date, safeAmount,
                                      data.type, data.category, data.accountId,
                                      data.toAccountId, FALSE)
                             EXCEPT !.description = data.description,
                                    !.location = data.location]>> \o transactions
           /\ effectDue' = data.isRecurring
    /\ phase' = "render"
    /\ UNCHANGED <<accounts, accountBalances, today, lastPass, renderedPending,
                   balVars, dateVars, ledgerVars>>

\* deleteRecurring(id)
DeleteRecurring(id) ==
    /\ phase = "idle"
    /\ recurringTransactions' = SelectSeq(recurringTransactions, LAMBDA r : r.id # id)
    /\ effectDue' = TRUE
    /\ phase' = "render"
    /\ UNCHANGED <<accounts, transactions, accountBalances, today, lastPass,
                   renderedPending, clock, balVars, dateVars, ledgerVars>>

\* the calendar date moves on while the application waits for an event
Tick ==
    /\ phase = "idle"
    /\ \E t \in Todays : DateLT(today, t) /\ today' = t
    /\ UNCHANGED <<accounts, transactions, recurringTransactions, accountBalances,
                   phase, effectDue, lastPass, renderedPending, clock,
                   balVars, dateVars, ledgerVars>>

\* the page is loaded again from the saved snapshot: App mounts, and every
\* effect runs after the first render
Reload ==
    /\ phase = "idle"
    /\ phase' = "render"
    /\ effectDue' = TRUE
    /\ UNCHANGED <<accounts, transactions, recurringTransactions, accountBalances,
                   today, lastPass, renderedPending, clock, balVars, dateVars, ledgerVars>>

\* the entries the edit form is opened on: the first one of the list
EditableIds == {transactions[i].id : i \in (1..Len(transactions)) \cap {1}}

Next ==
    \/ Render
    \/ SchedulerPass
    \/ \E data \in FormData :
          FormDataOk(data) /\ SaveTransaction(data, NoId, FALSE)
    \/ \E data \in FormData, id \in EditableIds, dup \in BOOLEAN :
          FormDataOk(data) /\ SaveTransaction(data, id, dup)
    \/ \E i \in 1..Len(recurringTransactions) :
          DeleteRecurring(recurringTransactions[i].id)
    \/ Tick
    \/ Reload

Spec == Init /\ [][Next]_vars

-----------------------------------------------------------------------------
(* The catch-up effect: cap, repetition, end date, order with the render   *)

\* the due date n steps after d
RECURSIVE NthDue(_, _, _)
NthDue(d, f, n) == IF n = 0 THEN d ELSE NthDue(getNextDate(d, f), f, n - 1)

\* the template has more than 12 due dates on or before tday, none of them
\* after its end date: its 13th due date is one
ManyDue(rt, tday) ==
    LET d13 == NthDue(rt.nextDueDate, rt.frequency, 12)
    IN  /\ DateLE(d13, tday)
        /\ rt.endDate = NoDate \/ DateLE(d13, rt.endDate)

\* C4: one pass emits at most 12 instances per template; for a template with
\* more than 12 due dates on or before today it emits exactly 12 and leaves
\* nextDueDate <= today.
C4_CapTwelve ==
    lastPass.ran =>
        \A i \in 1..Len(lastPass.before) :
            /\ Len(lastPass.instances[i]) <= 12
            /\ ManyDue(lastPass.before[i], lastPass.today) =>
                   /\ Len(lastPass.instances[i]) = 12
                   /\ DateLE(lastPass.after[i].nextDueDate, lastPass.today)

C4_Witness ==
    /\ lastPass.ran
    /\ \E i \in 1..Len(lastPass.before) :
          /\ ManyDue(lastPass.before[i], lastPass.today)
          /\ Len(lastPass.instances[i]) = 12
          /\ Len(transactions) >= 12
          /\ DateLE(recurringTransactions[i].nextDueDate, today)

\* the last pass ran with the today of the pass before it, on the template
\* list that pass produced
SecondPass ==
    /\ lastPass.ran
    /\ lastPass.prevRan
    /\ lastPass.today = lastPass.prevToday
    /\ lastPass.before = lastPass.prevAfter

\* C5 as claimed: a second pass with the same today on the list the first pass
\* produced emits no instance and changes no template.
C5_SecondPassEmitsNothing ==
    SecondPass =>
        /\ \A i \in 1..Len(lastPass.before) : lastPass.instances[i] = <<>>
        /\ lastPass.after = lastPass.before

\* C5, amended: for every template for which the first pass emitted fewer than
\* 12 instances, the second pass emits no instance and leaves it unchanged.
C5_SecondPassBelowCap ==
    SecondPass =>
        /\ Len(lastPass.after) = Len(lastPass.before)
        /\ \A i \in 1..Len(lastPass.before) :
              lastPass.prevCounts[i] < 12 =>
                  /\ lastPass.instances[i] = <<>>
                  /\ lastPass.after[i] = lastPass.before[i]

C5_Witness ==
    /\ SecondPass
    /\ \E i \in 1..Len(lastPass.before) :
          /\ lastPass.prevCounts[i] > 0
          /\ lastPass.prevCounts[i] < 12
          /\ lastPass.instances[i] = <<>>
          /\ recurringTransactions[i] = lastPass.before[i]

\* C6: no instance of a template with an end date is dated after it; a template
\* whose nextDueDate is past its endDate gets no instance from any later pass
\* and stays in the list with every field unchanged.
C6_EndDateDormancy ==
    lastPass.ran =>
        /\ Len(lastPass.after) = Len(lastPass.before)
        /\ \A i \in 1..Len(lastPass.before) :
              LET rt == lastPass.before[i]
              IN  /\ rt.endDate # NoDate =>
                         \A k \in 1..Len(lastPass.instances[i]) :
                             DateLE(lastPass.instances[i][k].date, rt.endDate)
                  /\ (rt.endDate # NoDate /\ DateLT(rt.endDate, rt.nextDueDate)) =>
                         /\ lastPass.instances[i] = <<>>
                         /\ lastPass.after[i] = rt

C6_Witness ==
    /\ lastPass.ran
    /\ \E i \in 1..Len(lastPass.before) :
          LET rt == lastPass.before[i]
          IN  /\ rt.endDate # NoDate
              /\ rt.lastGenerated = rt.endDate
              /\ DateLT(rt.endDate, rt.nextDueDate)
              /\ DateLE(rt.nextDueDate, lastPass.today)
              /\ lastPass.instances[i] = <<>>
              /\ recurringTransactions[i] = rt

\* C10 as claimed: no balance map is computed while a template still has
\* nextDueDate <= today within its end date.
C10_BalancesAfterCatchUp == ~renderedPending

-----------------------------------------------------------------------------
(* The history view, handleExportCSV, handleImportCSV and the restore as   *)
(* handlers of the application                                             *)

\* setSearchTerm(e.target.value)
SetSearchTerm(term) ==
    /\ phase = "idle"
    /\ searchTerm # term
    /\ searchTerm' = term
    /\ phase' = "render"
    /\ effectDue' = FALSE
    /\ UNCHANGED <<accounts, transactions, recurringTransactions, accountBalances,
                   today, lastPass, renderedPending, clock, filters, sortConfig,
                   balVars, dateVars, ioVars, accVars, storeVars>>

\* setFilters({...filters, ...})
SetFilters(f) ==
    /\ phase = "idle"
    /\ filters # f
    /\ filters' = f
    /\ phase' = "render"
    /\ effectDue' = FALSE
    /\ UNCHANGED <<accounts, transactions, recurringTransactions, accountBalances,
                   today, lastPass, renderedPending, clock, searchTerm, sortConfig,
                   balVars, dateVars, ioVars, accVars, storeVars>>

\* setSortConfig({ key, direction }) of the four entries of the sort menu
SetSortConfig(cfg) ==
    /\ phase = "idle"
    /\ sortConfig # cfg
    /\ sortConfig' = cfg
    /\ phase' = "render"
    /\ effectDue' = FALSE
    /\ UNCHANGED <<accounts, transactions, recurringTransactions, accountBalances,
                   today, lastPass, renderedPending, clock, searchTerm, filters,
                   balVars, dateVars, ioVars, accVars, storeVars>>

\* handleExportCSV: the rows are those of sortedTransactions
ExportCSV ==
    /\ phase = "idle"
    /\ LET rows == SortedTransactions(transactions, searchTerm, filters, sortConfig)
       IN  exported' = [ran |-> TRUE, text |-> ExportText(rows, accounts),
                        rows |-> rows, accounts |-> accounts,
                        transactions |-> transactions]
    /\ UNCHANGED <<appVars, balVars, dateVars, viewVars, lastImport, restored,
                   accVars, storeVars>>

\* handleImportCSV with a file of the given text
ImportCSV(text) ==
    /\ phase = "idle"
    /\ clock < MaxSaves
    /\ clock' = clock + 1
    /\ \E res \in {ImportResult(text, accounts, clock)} :
       LET importedCount == Len(res.txs)
       IN  /\ accounts' = IF importedCount > 0 THEN res.accounts ELSE accounts
           /\ transactions' = IF importedCount > 0
                              THEN CommitImported(transactions, res.txs)
                              ELSE transactions
           /\ phase' = IF importedCount > 0 THEN "render" ELSE "idle"
           /\ effectDue' = IF importedCount > 0 THEN FALSE ELSE effectDue
           /\ lastImport' = [ran |-> TRUE, text |-> text, accepted |-> res.accepted,
                             clock |-> clock,
                             accountsBefore |-> accounts,
                             transactionsBefore |-> transactions,
                             accountsAfter |-> accounts',
                             transactionsAfter |-> transactions',
                             newTransactions |-> res.txs]
    /\ UNCHANGED <<recurringTransactions, accountBalances, today, lastPass,
                   renderedPending, balVars, dateVars, viewVars, exported, restored,
                   accVars, storeVars>>

\* restoreDataFromGoogleSheets with the given rows in the sheets
RestoreFromSheets(rows) ==
    /\ phase = "idle"
    /\ LET res == RestoreResult(rows)
       IN  restored' = [ran |-> TRUE, rows |-> rows,
                        transactions |-> res.transactions,
                        accountNames |-> res.accountNames]
    /\ UNCHANGED <<appVars, balVars, dateVars, viewVars, lastImport, exported,
                   accVars, storeVars>>

-----------------------------------------------------------------------------
(* SpecImport: one export, one import and one restore on bounded ledgers   *)
(* and files                                                               *)

MaxRows == 2

\* a line as handleExportCSV writes it, and a line without quotes
QuotedLine(cells) == Join([i \in 1..Len(cells) |-> QuoteCell(cells[i])], COMMA)
PlainLine(cells) == Join(cells, COMMA)

\* the data lines the files are made of
CsvLines ==
    << QuotedLine(<<DateToText(<<2024, 2, 16>>), <<"expense">>, <<"1", "0", "0">>,
                    <<"food">>, <<"lunch">>, <<>>, <<"wallet">>, <<>> >>),
       PlainLine(<<<<"2", "0", "2", "4", "/", "2", "/", "1", "7">>, <<"income">>,
                   <<"1", "2", ".", "5">>, <<"salary">>, <<"pay">>, <<>>,
                   <<"savings">>, <<>> >>),
       QuotedLine(<<DateToText(<<2024, 2, 18>>), <<"transfer">>, <<"3", "0">>,
                    <<"transfer">>, <<"move">>, <<>>, <<"savings">>, <<"wallet">> >>),
       QuotedLine(<<DateToText(<<2024, 2, 18>>), <<"expense">>, <<"abc">>,
                    <<"food">>, <<"x">>, <<>>, <<"ghost">>, <<>> >>),
       QuotedLine(<<DateToText(<<2024, 2, 19>>), <<"transfer">>, <<"-", "3">>,
                    <<"transfer">>, <<>>, <<>>, <<"wallet">>, <<"wallet">> >>),
       QuotedLine(<<DateToText(<<2024, 2, 19>>), <<"expense">>, <<"7">>,
                    <<"food">>, <<"a", COMMA, QUOTE, "c", QUOTE>>, <<"here">>,
                    <<>>, <<>> >>),
       <<SPACE>>,
       PlainLine(<<<<>>, <<"expense">>, <<"5">>, <<"food">>, <<"y">>, <<>>,
                   <<"ghost">>, <<>> >>) >>

\* the first lines: the one the export writes, the same with quotes and no
\* byte-order mark, one with only the date and the amount column, and one of
\* another table
CsvHeaderLines ==
    { <<BOM>> \o Join(CsvHeaders, COMMA),
      QuotedLine(CsvHeaders),
      PlainLine(<<<<"date">>, <<"amount">>>>),
      PlainLine(<<<<"type">>, <<"note">>>>) }

\* at most MaxRows of the lines, in their order
LinePicks ==
    {p \in UNION {[1..k -> 1..Len(CsvLines)] : k \in 0..MaxRows} :
        \A i \in 1..(Len(p) - 1) : p[i] < p[i + 1]}

ImportTexts ==
    {Join(<<h>> \o [i \in 1..Len(p) |-> CsvLines[p[i]]], NEWLINE) :
        h \in CsvHeaderLines, p \in LinePicks}

\* the rows of the sheets: the cells of the lines picked
SheetRows == {[i \in 1..Len(p) |-> ParseRow(CsvLines[p[i]])] : p \in LinePicks}

\* the account lists: as constructed, after deleting the first account, and
\* after deleting every account
ImportAccountLists == {INITIAL_ACCOUNTS, SubSeq(INITIAL_ACCOUNTS, 2, 3), <<>>}

\* the ledgers: empty; two entries of the form, one with a comma and quotes in
\* its note; a transfer whose note has two lines; an entry that an import
\* stored with the amount 12.5; two entries of the categories named 'other'
ImportLedgers ==
    { <<>>,
      << [Transaction(<<"tx", 2>>, <<2024, 2, 16>>, Num(100), "EXPENSE", "cat_food",
                      "acc_1", Undefined, FALSE)
             EXCEPT !.description = <<"lunch">>],
         [Transaction(<<"tx", 1>>, <<2024, 2, 10>>, Num(250), "INCOME", "cat_salary",
                      "acc_2", Undefined, FALSE)
             EXCEPT !.description = <<"a", COMMA, SPACE, QUOTE, "b", QUOTE>>,
                    !.location = <<"here">>] >>,
      << [Transaction(<<"tx", 3>>, <<2024, 2, 12>>, Num(30), "TRANSFER",
                      "cat_transfer", "acc_2", "acc_3", FALSE)
             EXCEPT !.description = <<"line1", NEWLINE, "line2">>] >>,
      << [Transaction(<<"import", 0 - 1, 1>>, <<2024, 2, 17>>, FromTenths(125),
                      "INCOME", "cat_salary", "acc_2", Undefined, FALSE)
             EXCEPT !.description = <<"pay">>] >>,
      << [Transaction(<<"tx", 5>>, <<2024, 2, 15>>, Num(40), "EXPENSE",
                      "cat_other_exp", "acc_1", Undefined, FALSE)
             EXCEPT !.description = <<"stamps">>],
         [Transaction(<<"tx", 4>>, <<2024, 2, 14>>, Num(60), "INCOME",
                      "cat_other_inc", "acc_2", Undefined, FALSE)
             EXCEPT !.description = <<"refund">>] >> }

SearchTerms == {<<>>, <<"lunch">>}
FilterSettings == {INITIAL_FILTERS, [INITIAL_FILTERS EXCEPT !.type = "INCOME"]}
SortConfigs == [key : {"date", "amount"}, direction : {"asc", "desc"}]

ImportInit ==
    /\ accounts \in ImportAccountLists
    /\ transactions \in ImportLedgers
    /\ recurringTransactions = <<>>
    /\ accountBalances = AccountBalances(accounts, transactions)
    /\ today = HarnessDate
    /\ phase = "idle"
    /\ effectDue = FALSE
    /\ lastPass = NoPass
    /\ renderedPending = FALSE
    /\ clock = 0
    /\ HarnessIdle
    /\ DateIdle
    /\ LedgerIdle

\* nothing was exported, imported or restored yet
Fresh == ~exported.ran /\ ~lastImport.ran /\ ~restored.ran

\* Each behaviour sets the history view and then runs one scenario: a file is
\* imported or the sheets are restored in the view as constructed, or the
\* ledger is exported in the view set and the text exported is imported.
ImportNext ==
    \/ Render
    \/ \E term \in SearchTerms : Fresh /\ SetSearchTerm(term)
    \/ \E f \in FilterSettings : Fresh /\ SetFilters(f)
    \/ \E cfg \in SortConfigs : Fresh /\ SetSortConfig(cfg)
    \/ Fresh /\ ExportCSV
    \/ exported.ran /\ ~lastImport.ran /\ ImportCSV(exported.text)
    \/ Fresh /\ ViewIdle /\ \E text \in ImportTexts : ImportCSV(text)
    \/ Fresh /\ ViewIdle /\ \E rows \in SheetRows : RestoreFromSheets(rows)

SpecImport == ImportInit /\ [][ImportNext]_vars

-----------------------------------------------------------------------------
(* Import, export and restore: rows, accounts, frame, header, round trip   *)

\* the lines of the file of the last import, and the cells of line i (the
\* header is line 0)
ImportedLines == Split(lastImport.text, NEWLINE)
ImportedRow(i) == ParseRow(Trim(ImportedLines[i + 1]))

\* the row has an amount cell that parses as a number
NumericRow(row) == Len(row) >= 3 /\ ~IsNaN(parseFloat(row[3]))

\* the row names the account n as its source or as its destination
RowNames(row, n) == TextTruthy(n) /\ n \in {Cell(row, 7), Cell(row, 8)}

\* the CSV import: a row whose amount is not numeric yields no transaction and
\* no account, and every row with a numeric amount and a date yields one
ImportDiscardsNonNumeric ==
    (lastImport.ran /\ lastImport.accepted) =>
          /\ \A i \in 1..(Len(ImportedLines) - 1) :
                ~NumericRow(ImportedRow(i)) =>
                    \A k \in 1..Len(lastImport.newTransactions) :
                        lastImport.newTransactions[k].id[3] # i
          /\ \A i \in 1..(Len(ImportedLines) - 1) :
                (NumericRow(ImportedRow(i)) /\ ImportedRow(i)[1] # <<>>) =>
                    \E k \in 1..Len(lastImport.newTransactions) :
                        lastImport.newTransactions[k].id[3] = i
          /\ \A a \in (Len(lastImport.accountsBefore) + 1)..Len(lastImport.accountsAfter) :
                \E i \in 1..(Len(ImportedLines) - 1) :
                    /\ NumericRow(ImportedRow(i))
                    /\ RowNames(ImportedRow(i), lastImport.accountsAfter[a].name)

\* the same of the spreadsheet restore and the names it collects
RestoreDiscardsNonNumeric ==
    restored.ran =>
          /\ \A k \in 1..Len(restored.rows) :
                ~NumericRow(restored.rows[k]) =>
                    \A j \in 1..Len(restored.transactions) :
                        restored.transactions[j].id[2] # k
          /\ \A k \in 1..Len(restored.rows) :
                NumericRow(restored.rows[k]) =>
                    \E j \in 1..Len(restored.transactions) :
                        restored.transactions[j].id[2] = k
          /\ \A n \in restored.accountNames :
                \E k \in 1..Len(restored.rows) :
                    NumericRow(restored.rows[k]) /\ RowNames(restored.rows[k], n)

\* C11 as claimed: in the CSV import and in the spreadsheet restore a row whose
\* amount is not numeric yields no transaction and no account (created or
\* collected), while the other rows of the batch are processed.
C11_NonNumericRowDiscarded == ImportDiscardsNonNumeric /\ RestoreDiscardsNonNumeric

\* the pairs <<name, id>> of the last import: the account names of the rows
\* that became transactions, with the ids they were resolved to
Resolutions ==
    UNION {LET t == lastImport.newTransactions[k]
               row == ImportedRow(t.id[3])
           IN  (IF TextTruthy(Cell(row, 7)) THEN {<<Cell(row, 7), t.accountId>>} ELSE {})
               \cup (IF t.type = "TRANSFER" /\ TextTruthy(Cell(row, 8))
                     THEN {<<Cell(row, 8), t.toAccountId>>} ELSE {}) :
           k \in 1..Len(lastImport.newTransactions)}

\* the positions of the accounts with the name n
Named(accs, n) == {i \in 1..Len(accs) : accs[i].name = n}

\* C12: within one import run every account name resolves to one id; a name of
\* an existing account resolves to that account's id and adds no account; a
\* name not yet present adds exactly one account (CASH, initialBalance 0), and
\* no other account is added.
C12_AccountResolution ==
    lastImport.ran =>
        LET before == lastImport.accountsBefore
            after == IF lastImport.newTransactions = <<>> THEN before
                     ELSE lastImport.accountsAfter
        IN  /\ \A p \in Resolutions, q \in Resolutions : p[1] = q[1] => p[2] = q[2]
            /\ \A p \in Resolutions :
                  IF Named(before, p[1]) # {}
                  THEN /\ \E i \in Named(before, p[1]) :
                             /\ before[i].id = p[2]
                             /\ \A j \in Named(before, p[1]) : i <= j
                       /\ Named(after, p[1]) = Named(before, p[1])
                  ELSE /\ Cardinality(Named(after, p[1])) = 1
                       /\ \A i \in Named(after, p[1]) :
                             /\ i > Len(before)
                             /\ after[i].id = p[2]
                             /\ after[i].id \notin AccountIds(before)
                             /\ after[i].type = "CASH"
                             /\ after[i].initialBalance = Num(0)
            /\ Len(after) - Len(before) =
                   Cardinality({p[1] : p \in {q \in Resolutions : Named(before, q[1]) = {}}})

C12_Witness ==
    /\ lastImport.ran
    /\ lastImport.accountsBefore = INITIAL_ACCOUNTS
    /\ Len(lastImport.newTransactions) = 2
    /\ Len(accounts) = 4
    /\ accounts[4].name = <<"savings">>
    /\ lastImport.newTransactions[1].accountId = accounts[4].id
    /\ lastImport.newTransactions[2].accountId = accounts[4].id
    /\ lastImport.newTransactions[2].toAccountId = "acc_1"

\* C13: an import leaves the accounts it found as an unchanged prefix of the
\* account list and the transactions it found unchanged and in order at the
\* front of the ledger, with the new ones after them; a rejected header or a
\* file without a valid row changes neither list.
C13_ImportFrame ==
    lastImport.ran =>
        LET accsB == lastImport.accountsBefore
            accsA == lastImport.accountsAfter
            txsB == lastImport.transactionsBefore
            txsA == lastImport.transactionsAfter
        IN  /\ Len(accsA) >= Len(accsB)
            /\ SubSeq(accsA, 1, Len(accsB)) = accsB
            /\ Len(txsA) = Len(txsB) + Len(lastImport.newTransactions)
            /\ SubSeq(txsA, 1, Len(txsB)) = txsB
            /\ \A k \in 1..Len(lastImport.newTransactions) :
                  /\ txsA[Len(txsB) + k] = lastImport.newTransactions[k]
                  /\ \A j \in 1..Len(txsB) : txsB[j].id # lastImport.newTransactions[k].id
            /\ (~lastImport.accepted \/ lastImport.newTransactions = <<>>) =>
                  accsA = accsB /\ txsA = txsB

C13_Witness ==
    /\ lastImport.ran
    /\ lastImport.accepted
    /\ Len(lastImport.transactionsBefore) = 2
    /\ Len(transactions) = 4
    /\ transactions[1] = lastImport.transactionsBefore[1]
    /\ transactions[3].id[1] = "import"
    /\ Len(accounts) > Len(lastImport.accountsBefore)

\* the first line of the file after the byte-order mark and the quotes are
\* removed
ImportedHeader ==
    LET first0 == ImportedLines[1]
    IN  RemoveQuotes(IF first0 # <<>> /\ Head(first0) = BOM THEN Tail(first0) ELSE first0)

\* C14 as claimed: a file whose first line is not the eight-column header is
\* rejected and leaves accounts and transactions unchanged.
C14_OnlyExactHeaderAccepted ==
    (lastImport.ran /\ ImportedHeader # Join(CsvHeaders, COMMA)) =>
        /\ lastImport.accountsAfter = lastImport.accountsBefore
        /\ lastImport.transactionsAfter = lastImport.transactionsBefore

\* the name of the account with the id, or the empty text
NameOfAccount(accs, id) ==
    IF \E i \in 1..Len(accs) : accs[i].id = id
    THEN accs[CHOOSE i \in 1..Len(accs) : accs[i].id = id].name
    ELSE <<>>

\* the text exported last was imported into the accounts it was exported from
RoundTrip ==
    /\ exported.ran
    /\ lastImport.ran
    /\ lastImport.text = exported.text
    /\ lastImport.accountsBefore = exported.accounts

\* C15 as claimed: importing the text that handleExportCSV produced yields one
\* new transaction per exported one, in the same order, with the same date,
\* amount, type, description and location and with accounts of the same names.
C15_ExportImportRoundTrip ==
    RoundTrip =>
        /\ Len(lastImport.newTransactions) = Len(exported.rows)
        /\ \A k \in 1..Len(exported.rows) :
              LET old == exported.rows[k]
                  new == lastImport.newTransactions[k]
              IN  /\ new.date = old.date
                  /\ new.amount = old.amount
                  /\ new.type = old.type
                  /\ new.description = old.description
                  /\ new.location = old.location
                  /\ NameOfAccount(lastImport.accountsAfter, new.accountId)
                        = NameOfAccount(exported.accounts, old.accountId)
                  /\ Truthy(old.toAccountId) =>
                        NameOfAccount(lastImport.accountsAfter, new.toAccountId)
                            = NameOfAccount(exported.accounts, old.toAccountId)

\* the number of records of a CSV text: its line feeds outside quotes, plus one
RecordCount(s) ==
    1 + Cardinality({i \in 1..Len(s) :
                        /\ s[i] = NEWLINE
                        /\ CountQuotes(SubSeq(s, 1, i - 1)) % 2 = 0})

\* the characters of a whole number
IsIntegerText(s) ==
    AllDigits(IF s # <<>> /\ Head(s) = "-" THEN Tail(s) ELSE s)

\* C20 as claimed: the export holds the header and one row for every
\* transaction of the ledger, whatever the search term, the filters and the
\* sort order are, and every amount cell is a whole number.
C20_ExportOneRowPerTransaction ==
    exported.ran =>
        /\ RecordCount(exported.text) = 1 + Len(exported.transactions)
        /\ \A k \in 1..Len(exported.rows) :
              IsIntegerText(ExportCells(exported.rows[k], exported.accounts)[3])

-----------------------------------------------------------------------------
(* The account list: handleSaveAccount, handleDeleteAccount, moveAccount    *)
(* and the drag handlers                                                   *)

\* parseInt(s): white space, a sign and digits; whatever follows is ignored
parseInt(s) ==
    LET t == TrimStart(s)
        neg == t # <<>> /\ Head(t) = "-"
        u == IF t # <<>> /\ Head(t) \in {"-", "+"} THEN Tail(t) ELSE t
        ip == DigitPrefix(u)
    IN  IF ip = <<>> THEN NaN
        ELSE Num(IF neg THEN 0 - TextToNat(ip) ELSE TextToNat(ip))

\* x || 0 of a number
OrZero(x) == IF IsNaN(x) THEN Num(0) ELSE x

\* `acc_${Date.now()}` at the time clk: the time stamp is written t0, t1, ...
FormAccountId(clk) == "acc_t" \o ToString(clk)

\* handleSaveAccount() with the form state form; form.id is Undefined for a
\* new account
SaveAccount(form) ==
    /\ phase = "idle"
    /\ clock < MaxSaves
    /\ clock' = clock + 1
    /\ LET initialBalance == OrZero(parseInt(form.initialBalance))
           saved(a) == [a EXCEPT !.name = form.name, !.type = form.type,
                                 !.color = form.color,
                                 !.initialBalance = initialBalance]
       IN  accounts' =
               IF Truthy(form.id)
               THEN [i \in 1..Len(accounts) |->
                        IF accounts[i].id = form.id THEN saved(accounts[i])
                        ELSE accounts[i]]
               ELSE Append(accounts,
                           [id |-> FormAccountId(clock), name |-> form.name,
                            type |-> form.type, initialBalance |-> initialBalance,
                            color |-> form.color])
    /\ phase' = "render"
    /\ effectDue' = FALSE
    /\ UNCHANGED <<transactions, recurringTransactions, accountBalances, today,
                   lastPass, renderedPending, balVars, dateVars, ledgerVars>>

\* handleDeleteAccount(id), confirmed
DeleteAccount(id) ==
    /\ phase = "idle"
    /\ accounts' = SelectSeq(accounts, LAMBDA a : a.id # id)
    /\ phase' = "render"
    /\ effectDue' = FALSE
    /\ UNCHANGED <<transactions, recurringTransactions, accountBalances, today,
                   lastPass, renderedPending, clock, balVars, dateVars, ledgerVars>>

\* the test of moveAccount without its upper bound
OutOfRangeNoUpper(toIndex, n) == toIndex < 0

\* moveAccount: toIndex < 0 || toIndex >= accounts.length
OutOfRange(toIndex, n) == toIndex < 0 \/ toIndex >= n

\* accs[i] of a JavaScript array (0-based), undefined past its end
At(accs, i) == IF i >= 0 /\ i < Len(accs) THEN accs[i + 1] ELSE Undefined

\* the array after newAccounts[fromIndex] = newAccounts[toIndex];
\* newAccounts[toIndex] = temp, which grows when toIndex is its length
Swapped(accs, fromIndex, toIndex) ==
    [k \in 1..(IF toIndex >= Len(accs) THEN toIndex + 1 ELSE Len(accs)) |->
        IF k = fromIndex + 1 THEN At(accs, toIndex)
        ELSE IF k = toIndex + 1 THEN At(accs, fromIndex)
        ELSE At(accs, k - 1)]

\* moveAccount(fromIndex, direction)
moveAccount(fromIndex, direction) ==
    /\ phase = "idle"
    /\ LET toIndex == IF direction = "UP" THEN fromIndex - 1 ELSE fromIndex + 1
           moved == ~OutOfRange(toIndex, Len(accounts))
       IN  /\ accounts' = IF moved THEN Swapped(accounts, fromIndex, toIndex)
                                   ELSE accounts
           /\ phase' = IF moved THEN "render" ELSE phase
           /\ effectDue' = IF moved THEN FALSE ELSE effectDue
           /\ lastReorder' = [ran |-> TRUE, op |-> direction, from |-> fromIndex,
                              to |-> toIndex, before |-> accounts,
                              after |-> accounts', transactions |-> transactions]
    /\ UNCHANGED <<transactions, recurringTransactions, accountBalances, today,
                   lastPass, renderedPending, clock, balVars, dateVars,
                   viewVars, ioVars, draggedAccountIndex, storeVars>>

\* handleDragStart(e, index)
DragStart(index) ==
    /\ phase = "idle"
    /\ draggedAccountIndex = NoIndex
    /\ draggedAccountIndex' = index
    /\ phase' = "render"
    /\ effectDue' = FALSE
    /\ UNCHANGED <<accounts, transactions, recurringTransactions, accountBalances,
                   today, lastPass, renderedPending, clock, balVars, dateVars,
                   viewVars, ioVars, lastReorder, storeVars>>

\* newAccounts.splice(from, 1); newAccounts.splice(index, 0, draggedItem)
Spliced(accs, from, index) ==
    LET removed == SubSeq(accs, 1, from) \o SubSeq(accs, from + 2, Len(accs))
    IN  SubSeq(removed, 1, index) \o <<accs[from + 1]>>
            \o SubSeq(removed, index + 1, Len(removed))

\* handleDragOver(e, index)
handleDragOver(index) ==
    /\ phase = "idle"
    /\ draggedAccountIndex # NoIndex
    /\ draggedAccountIndex # index
    /\ accounts' = Spliced(accounts, draggedAccountIndex, index)
    /\ draggedAccountIndex' = index
    /\ lastReorder' = [ran |-> TRUE, op |-> "DRAG", from |-> draggedAccountIndex,
                       to |-> index, before |-> accounts,
                       after |-> accounts', transactions |-> transactions]
    /\ phase' = "render"
    /\ effectDue' = FALSE
    /\ UNCHANGED <<transactions, recurringTransactions, accountBalances, today,
                   lastPass, renderedPending, clock, balVars, dateVars,
                   viewVars, ioVars, storeVars>>

\* handleDragEnd()
handleDragEnd ==
    /\ phase = "idle"
    /\ draggedAccountIndex # NoIndex
    /\ draggedAccountIndex' = NoIndex
    /\ phase' = "render"
    /\ effectDue' = FALSE
    /\ UNCHANGED <<accounts, transactions, recurringTransactions, accountBalances,
                   today, lastPass, renderedPending, clock, balVars, dateVars,
                   viewVars, ioVars, lastReorder, storeVars>>

-----------------------------------------------------------------------------
(* SpecLedger: the ledger under form saves and edits, account creations,   *)
(* deletions and reorderings, CSV imports and scheduler passes             *)

LedgerDate == <<2024, 2, 16>>

\* the destination of an INTERNAL transfer: the select offers the accounts
\* other than the source, and the effect moves an equal destination to another
\* account when there is one; with a single account it stays ''
FormToAccountIds(accs, accountId) ==
    LET others == AccountIds(accs) \ {accountId}
    IN  IF others # {} THEN others ELSE {""}

\* what is typed into the number input (it has no min) with the type chosen
\* and the recurring switch: -50 and 12.5 as expenses, 100 as a DAILY expense
\* and 100 as a transfer
TypedEntries ==
    {[type |-> "EXPENSE", amount |-> <<"-", "5", "0">>, isRecurring |-> FALSE],
     [type |-> "EXPENSE", amount |-> <<"1", "2", ".", "5">>, isRecurring |-> FALSE],
     [type |-> "EXPENSE", amount |-> <<"1", "0", "0">>, isRecurring |-> TRUE],
     [type |-> "TRANSFER", amount |-> <<"1", "0", "0">>, isRecurring |-> FALSE]}

\* what handleSubmit passes to onSubmit for the accounts shown, the source
\* select left on its first option
LedgerFormData(accs) ==
    {[type |-> e.type, amount |-> MathRound(OrZero(parseFloat(e.amount))),
      date |-> LedgerDate,
      category |-> IF e.type = "TRANSFER" THEN "cat_transfer" ELSE "cat_food",
      description |-> <<"lunch">>, location |-> <<>>,
      accountId |-> IF accs = <<>> THEN "" ELSE accs[1].id,
      toAccountId |-> IF e.type = "TRANSFER" THEN to ELSE Undefined,
      isRecurring |-> e.isRecurring, frequency |-> "DAILY", endDate |-> NoDate] :
        e \in TypedEntries,
        to \in FormToAccountIds(accs, IF accs = <<>> THEN "" ELSE accs[1].id)}

\* the account form: a new account, and the first account edited
AccountForms(accs) ==
    {[id |-> Undefined, name |-> <<"savings">>, type |-> "BANK",
      initialBalance |-> <<"1", "2", ".", "7">>, color |-> "bg-orange-500"]}
    \cup {[id |-> accs[i].id, name |-> accs[i].name, type |-> accs[i].type,
           initialBalance |-> <<"a", "b", "c">>, color |-> accs[i].color] :
             i \in (1..Len(accs)) \cap {1}}

\* the files imported: a transfer from wallet to wallet of -3, and an income of
\* 12.5 on a new account
LedgerTexts ==
    {Join(<<Join(CsvHeaders, COMMA), CsvLines[k]>>, NEWLINE) : k \in {2, 5}}

LedgerInit ==
    /\ accounts = INITIAL_ACCOUNTS
    /\ transactions \in StoredTransactions
    /\ recurringTransactions = <<>>
    /\ accountBalances = <<>>
    /\ today = LedgerDate
    /\ phase = "render"
    /\ effectDue = TRUE
    /\ lastPass = NoPass
    /\ renderedPending = FALSE
    /\ clock = 0
    /\ HarnessIdle
    /\ DateIdle
    /\ LedgerIdle

LedgerNext ==
    \/ Render
    \/ SchedulerPass
    \/ \E data \in LedgerFormData(accounts) : SaveTransaction(data, NoId, FALSE)
    \/ \E data \in LedgerFormData(accounts), id \in EditableIds :
          ~data.isRecurring /\ SaveTransaction(data, id, FALSE)
    \/ \E text \in LedgerTexts : ImportCSV(text)
    \/ \E form \in AccountForms(accounts) : SaveAccount(form)
    \/ \E i \in 1..Len(accounts) : DeleteAccount(accounts[i].id)

SpecLedger == LedgerInit /\ [][LedgerNext]_vars

\* C16 as claimed: every TRANSFER of the ledger has a source and a destination
\* that differ and that are both in the account list.
C16_TransfersReferenceAccounts ==
    \A k \in 1..Len(transactions) :
        transactions[k].type = "TRANSFER" =>
            /\ transactions[k].accountId # transactions[k].toAccountId
            /\ transactions[k].accountId \in AccountIds(accounts)
            /\ transactions[k].toAccountId \in AccountIds(accounts)

\* C17 as claimed: every amount of the ledger is a whole number that is not
\* negative.
C17_AmountsNonNegativeIntegers ==
    \A k \in 1..Len(transactions) :
        /\ ~IsNaN(transactions[k].amount)
        /\ IsInteger(transactions[k].amount)
        /\ Tenths(transactions[k].amount) >= 0

-----------------------------------------------------------------------------
(* SpecAccounts: the account list under creations, edits, deletions and    *)
(* reorderings, with a ledger that stays as it is                          *)

\* the ledgers: empty, and one with an expense, a transfer, an entry of an
\* account that is not listed and a transfer without destination
AccountLedgers ==
    { <<>>,
      << Transaction(<<"tx", 4>>, LedgerDate, Num(40), "EXPENSE", "cat_food",
                     "acc_1", Undefined, FALSE),
         Transaction(<<"tx", 3>>, LedgerDate, Num(30), "TRANSFER", "cat_transfer",
                     "acc_2", "acc_3", FALSE),
         Transaction(<<"tx", 2>>, LedgerDate, Num(20), "INCOME", "cat_salary",
                     "acc_9", Undefined, FALSE),
         Transaction(<<"tx", 1>>, LedgerDate, Num(10), "TRANSFER", "cat_transfer",
                     "acc_1", Undefined, FALSE) >> }

AccountsInit ==
    /\ accounts = INITIAL_ACCOUNTS
    /\ transactions \in AccountLedgers
    /\ recurringTransactions = <<>>
    /\ accountBalances = <<>>
    /\ today = LedgerDate
    /\ phase = "render"
    /\ effectDue = FALSE
    /\ lastPass = NoPass
    /\ renderedPending = FALSE
    /\ clock = 0
    /\ HarnessIdle
    /\ DateIdle
    /\ LedgerIdle

\* a drag is one gesture: until it ends only the drag handlers run
NotDragging == draggedAccountIndex = NoIndex

\* the list is made first and reordered afterwards, by one moveAccount or by
\* one drag over any number of rows
AccountsNext ==
    \/ Render
    \/ \E form \in AccountForms(accounts) : ~lastReorder.ran /\ NotDragging /\ SaveAccount(form)
    \/ \E i \in 1..Len(accounts) :
          ~lastReorder.ran /\ NotDragging /\ DeleteAccount(accounts[i].id)
    \/ \E i \in 0..(Len(accounts) - 1), dir \in {"UP", "DOWN"} :
          ~lastReorder.ran /\ NotDragging /\ moveAccount(i, dir)
    \/ \E i \in 0..(Len(accounts) - 1) : ~lastReorder.ran /\ DragStart(i)
    \/ \E i \in 0..(Len(accounts) - 1) : handleDragOver(i)
    \/ handleDragEnd

SpecAccounts == AccountsInit /\ [][AccountsNext]_vars

\* how often the record r occurs in the list
Count(accs, r) == Cardinality({i \in 1..Len(accs) : accs[i] = r})

\* the same records, each as often
IsPermutation(a, b) ==
    /\ Len(a) = Len(b)
    /\ \A i \in 1..Len(a) : Count(b, a[i]) = Count(a, a[i])

\* C18: a reordering by moveAccount or by a drag-over yields a permutation of
\* the account records, moveAccount past either end changes nothing, and
\* every account has the balance it had before.
C18_ReorderKeepsAccounts ==
    lastReorder.ran =>
        /\ IsPermutation(lastReorder.before, lastReorder.after)
        /\ (lastReorder.op \in {"UP", "DOWN"}
               /\ (lastReorder.to < 0 \/ lastReorder.to >= Len(lastReorder.before)))
             => lastReorder.after = lastReorder.before
        /\ (lastReorder.to >= 0 /\ lastReorder.to < Len(lastReorder.before))
             => lastReorder.after[lastReorder.to + 1]
                    = lastReorder.before[lastReorder.from + 1]
        /\ AccountBalances(lastReorder.after, lastReorder.transactions)
               = AccountBalances(lastReorder.before, lastReorder.transactions)

\* a drag moved the first account to the end, a ledger with a transfer at hand
C18_Witness ==
    /\ lastReorder.ran
    /\ lastReorder.op = "DRAG"
    /\ lastReorder.before = INITIAL_ACCOUNTS
    /\ lastReorder.after = <<INITIAL_ACCOUNTS[2], INITIAL_ACCOUNTS[3], INITIAL_ACCOUNTS[1]>>
    /\ Len(lastReorder.transactions) = 4
    /\ accountBalances = AccountBalances(INITIAL_ACCOUNTS, transactions)
    /\ accounts = lastReorder.after

-----------------------------------------------------------------------------
(* Persistence: the effect that writes the snapshot to localStorage and    *)
(* its fallback on a quota error                                           *)

ThemeType == {"default", "purple", "coffee", "green"}

\* a receipt image (a Base64 data URL)
IMAGE == "data:image/jpeg;base64"

\* the characters a receipt image takes in the snapshot, counted in the
\* characters that a transaction without image takes
ImageSize == 10

\* t.receiptImage of a transaction as it is in memory or as it was parsed from
\* the snapshot, where the key may be missing
ReceiptOf(t) == IF "receiptImage" \in DOMAIN t THEN t.receiptImage ELSE Undefined

HasImage(t) == Truthy(ReceiptOf(t))

\* the optional keys of a Transaction that hold a string or undefined
OptionalKeys == {"toAccountId", "receiptImage"}

\* JSON.stringify of a transaction: a key whose value is undefined is left out
Stringify(t) ==
    [f \in {g \in DOMAIN t : g \notin OptionalKeys \/ t[g] # Undefined} |-> t[f]]

\* t[f] of an object parsed from the snapshot
Field(t, f) == IF f \in DOMAIN t THEN t[f] ELSE Undefined

\* const { receiptImage, ...rest } = t
WithoutImage(t) == [f \in DOMAIN t \ {"receiptImage"} |-> t[f]]

\* JSON.stringify(dataToSave)
DataToSave(accs, txs, rts, theme) ==
    [saved |-> TRUE, accounts |-> accs,
     transactions |-> [i \in 1..Len(txs) |-> Stringify(txs[i])],
     recurringTransactions |-> rts, theme |-> theme]

\* the length of the stored string, in the unit of ImageSize
Size(data) ==
    1 + Len(data.accounts) + Len(data.recurringTransactions) + Len(data.transactions)
      + ImageSize * Cardinality({i \in 1..Len(data.transactions) :
                                    HasImage(data.transactions[i])})

\* totalWithImages - 10
TrimTarget == 10

\* keepCount -= 5
TrimStep == 5

Max(a, b) == IF a >= b THEN a ELSE b

\* new Set(sorted.filter(t => t.receiptImage).slice(0, keepCount).map(t => t.id))
KeepImageIds(sorted, keepCount) ==
    LET withImages == SelectSeq(sorted, HasImage)
    IN  {withImages[i].id : i \in (1..keepCount) \cap (1..Len(withImages))}

\* transactions.map(t => ...): the image goes unless the id is kept
OptimizedTransactions(txs, keepImageIds) ==
    [i \in 1..Len(txs) |->
        IF HasImage(txs[i]) /\ txs[i].id \notin keepImageIds
        THEN WithoutImage(txs[i]) ELSE txs[i]]

\* the while loop of the fallback: an attempt with keepCount images, and on
\* failure five fewer, with a last attempt at 0
RECURSIVE RetryLoop(_, _, _, _, _, _, _, _)
RetryLoop(accs, txs, sorted, rts, theme, q, keepCount, attempts) ==
    IF keepCount < 0
    THEN [stored |-> FALSE, data |-> NoSnapshot, attempts |-> attempts]
    ELSE LET optimizedData ==
                 DataToSave(accs,
                            OptimizedTransactions(txs, KeepImageIds(sorted, keepCount)),
                            rts, theme)
             lower == keepCount - TrimStep
         IN  IF Size(optimizedData) <= q
             THEN [stored |-> TRUE, data |-> optimizedData,
                   attempts |-> Append(attempts, keepCount)]
             ELSE RetryLoop(accs, txs, sorted, rts, theme, q,
                            IF lower < 0 /\ lower > 0 - TrimStep THEN 0 ELSE lower,
                            Append(attempts, keepCount))

\* saveData on the state given, with room for q
SaveResult(accs, txs, rts, theme, q) ==
    LET dataToSave == DataToSave(accs, txs, rts, theme)
        sorted == SortFrom(<<>>, txs, [key |-> "date", direction |-> "desc"])
        totalWithImages == Len(SelectSeq(sorted, HasImage))
    IN  IF Size(dataToSave) <= q
        THEN [quotaHit |-> FALSE, stored |-> TRUE, data |-> dataToSave,
              attempts |-> <<>>]
        ELSE [quotaHit |-> TRUE] @@
             RetryLoop(accs, txs, sorted, rts, theme, q,
                       Max(0, totalWithImages - TrimTarget), <<>>)

\* saveData ran on the state as it is now
Saved ==
    /\ lastStore.ran
    /\ <<lastStore.accounts, lastStore.transactions,
         lastStore.recurringTransactions, lastStore.theme>>
         = <<accounts, transactions, recurringTransactions, currentTheme>>

\* the persistence effect, a second after the last change of accounts,
\* transactions, recurringTransactions or currentTheme
SaveData ==
    /\ phase = "idle"
    /\ ~Saved
    /\ UNCHANGED <<appVars, balVars, dateVars, viewVars, ioVars, accVars, quota,
                   currentTheme>>
    /\ LET res == SaveResult(accounts, transactions, recurringTransactions,
                             currentTheme, quota)
       IN  /\ storage' = IF res.stored THEN res.data ELSE storage
           /\ lastStore' = [ran |-> TRUE, quotaHit |-> res.quotaHit,
                            stored |-> res.stored, attempts |-> res.attempts,
                            before |-> storage, after |-> storage', quota |-> quota,
                            accounts |-> accounts, transactions |-> transactions,
                            recurringTransactions |-> recurringTransactions,
                            theme |-> currentTheme,
                            memoryAfter |-> <<accounts', transactions',
                                              recurringTransactions', currentTheme'>>]

\* setCurrentTheme(theme)
SetTheme(theme) ==
    /\ phase = "idle"
    /\ theme # currentTheme
    /\ currentTheme' = theme
    /\ phase' = "render"
    /\ effectDue' = FALSE
    /\ UNCHANGED <<accounts, transactions, recurringTransactions, accountBalances,
                   today, lastPass, renderedPending, clock, balVars, dateVars,
                   viewVars, ioVars, accVars, storage, quota, lastStore>>

\* deleteTransaction(id)
deleteTransaction(id) ==
    /\ phase = "idle"
    /\ transactions' = SelectSeq(transactions, LAMBDA t : t.id # id)
    /\ phase' = "render"
    /\ effectDue' = FALSE
    /\ UNCHANGED <<accounts, recurringTransactions, accountBalances, today,
                   lastPass, renderedPending, clock, balVars, dateVars, ledgerVars>>

-----------------------------------------------------------------------------
(* SpecPersist: saveData on ledgers with receipt images and a bounded      *)
(* storage                                                                 *)

\* the i-th entry of a stored ledger: the dates are not in the order of the
\* list, and every fourth entry of a ledger with gaps has no image
PersistTransaction(i, gaps) ==
    [Transaction(<<"tx", i>>, <<2024, 1, 1 + ((i * 5) % 17)>>, Num(10 * i),
                 "EXPENSE", "cat_food", "acc_1", Undefined, FALSE)
        EXCEPT !.description = <<"lunch">>,
               !.receiptImage = IF gaps /\ i % 4 = 0 THEN Undefined ELSE IMAGE]

\* the ledgers: two entries with images; fourteen entries, eleven of them with
\* images; sixteen entries with images
PersistLedgers ==
    { [i \in 1..2 |-> PersistTransaction(i, FALSE)],
      [i \in 1..14 |-> PersistTransaction(i, TRUE)],
      [i \in 1..16 |-> PersistTransaction(i, FALSE)] }

\* the room the storage has left
PersistQuotas == {5, 18, 28, 85, 200}

PersistInit ==
    /\ accounts = INITIAL_ACCOUNTS
    /\ transactions \in PersistLedgers
    /\ recurringTransactions = <<>>
    /\ accountBalances = <<>>
    /\ today = LedgerDate
    /\ phase = "render"
    /\ effectDue = FALSE
    /\ lastPass = NoPass
    /\ renderedPending = FALSE
    /\ clock = 0
    /\ HarnessIdle
    /\ DateIdle
    /\ ViewIdle
    /\ IoIdle
    /\ AccIdle
    /\ storage = NoSnapshot
    /\ quota \in PersistQuotas
    /\ currentTheme = "default"
    /\ lastStore = NoStore

\* the changes are more than a second apart: saveData runs after each
PersistNext ==
    \/ Render
    \/ SaveData
    \/ \E theme \in ThemeType : Saved /\ SetTheme(theme)
    \/ \E id \in EditableIds : Saved /\ deleteTransaction(id)

SpecPersist == PersistInit /\ [][PersistNext]_vars

\* the entries of the snapshot are the entries of the ledger, in its order and
\* with every field but the receipt image as it is in memory
SameButImages(stored, txs) ==
    /\ Len(stored) = Len(txs)
    /\ \A i \in 1..Len(txs) :
          /\ \A f \in DOMAIN txs[i] \ {"receiptImage"} : Field(stored[i], f) = txs[i][f]
          /\ DOMAIN stored[i] \subseteq DOMAIN txs[i]
          /\ ReceiptOf(stored[i]) \in {Undefined, ReceiptOf(txs[i])}

\* an image was dropped only from entries that are not newer than any entry
\* whose image was kept
OlderImagesDropped(stored, txs) ==
    \A i \in 1..Len(txs), j \in 1..Len(txs) :
        (HasImage(txs[i]) /\ ~HasImage(stored[i]) /\ HasImage(stored[j]))
            => ~DateLT(txs[j].date, txs[i].date)

\* the snapshot holds the state that saveData ran on, images aside
SnapshotOfState ==
    /\ lastStore.after.saved
    /\ lastStore.after.accounts = lastStore.accounts
    /\ lastStore.after.recurringTransactions = lastStore.recurringTransactions
    /\ lastStore.after.theme = lastStore.theme
    /\ SameButImages(lastStore.after.transactions, lastStore.transactions)
    /\ OlderImagesDropped(lastStore.after.transactions, lastStore.transactions)

MemoryKept ==
    lastStore.memoryAfter = <<lastStore.accounts, lastStore.transactions,
                              lastStore.recurringTransactions, lastStore.theme>>

\* C19 as claimed: a save that hits the quota error still ends with a stored
\* snapshot of the current state, only images of older entries dropped, and
\* leaves the state in memory as it is.
C19_QuotaErrorStillPersists ==
    (lastStore.ran /\ lastStore.quotaHit) =>
        /\ lastStore.stored
        /\ SnapshotOfState
        /\ MemoryKept

\* what the fallback does keep: the state in memory stays as it is; when one
\* of the attempts fits, the stored snapshot holds the current
\* accounts, templates, theme and every transaction with every field but the
\* receipt image, images dropped only from the older entries; when even the
\* snapshot without images does not fit, nothing is written and the snapshot
\* stored before stays.
FallbackKeepsFields ==
    (lastStore.ran /\ lastStore.quotaHit) =>
        /\ MemoryKept
        /\ lastStore.stored => SnapshotOfState
        /\ ~lastStore.stored =>
              /\ lastStore.after = lastStore.before
              /\ Size(DataToSave(lastStore.accounts,
                                 OptimizedTransactions(lastStore.transactions, {}),
                                 lastStore.recurringTransactions, lastStore.theme))
                    > lastStore.quota

-----------------------------------------------------------------------------
(* The instances of one pass of the catch-up effect                        *)

\* the k-th instance copies the template and is dated at its k-th due date,
\* which is earlier than the due date that follows
InstanceOf(tx, rt, k) ==
    /\ tx.date = NthDue(rt.nextDueDate, rt.frequency, k - 1)
    /\ DateLT(tx.date, NthDue(rt.nextDueDate, rt.frequency, k))
    /\ tx.isRecurringInstance = TRUE
    /\ tx.amount = rt.amount
    /\ tx.type = rt.type
    /\ tx.category = rt.category
    /\ tx.accountId = rt.accountId
    /\ tx.toAccountId = rt.toAccountId

C22_BiMonthlyInstanceParity ==
    lastPass.ran =>
        \A i \in 1..Len(lastPass.before) :
            lastPass.before[i].frequency \in {"BI_MONTHLY_ODD", "BI_MONTHLY_EVEN"} =>
                \A k \in 1..Len(lastPass.instances[i]) :
                    ParityOk(lastPass.before[i].frequency,
                             lastPass.instances[i][k].date[2])

-----------------------------------------------------------------------------
(* The order of the history view                                           *)

\* C23 as claimed: with the key date, sortedTransactions lists the filtered
\* transactions with dates that never decrease in the direction asc and never
\* increase in the direction desc, and it is a permutation of
\* filteredTransactions.
C23_DateSortOrder ==
    (sortConfig.key = "date" /\ \A i \in 1..Len(transactions) : IsDate(transactions[i].date)) =>
        LET filtered == FilteredTransactions(transactions, searchTerm, filters)
            sorted == SortedTransactions(transactions, searchTerm, filters, sortConfig)
        IN  /\ IsPermutation(sorted, filtered)
            /\ \A i \in 1..(Len(sorted) - 1) :
                  IF sortConfig.direction = "asc"
                  THEN DateLE(sorted[i].date, sorted[i + 1].date)
                  ELSE DateLE(sorted[i + 1].date, sorted[i].date)

-----------------------------------------------------------------------------
(* The balance map under changes of the account list                       *)

\* Object.values(accountBalances).reduce((a, b) => a + b, 0)
RECURSIVE ReduceSum(_, _)
ReduceSum(bals, ids) ==
    IF ids = {} THEN Num(0)
    ELSE LET k == CHOOSE j \in ids : TRUE
         IN  NumAdd(bals[k], ReduceSum(bals, ids \ {k}))

totalBalance(bals) == ReduceSum(bals, DOMAIN bals)

\* C24 as claimed: the balance map of a render has exactly the ids of the
\* accounts as keys, and every balance and their total are numbers, after
\* creations, edits and deletions of accounts, saves and imports.
C24_BalanceMapMatchesAccounts ==
    phase # "render" =>
        /\ DOMAIN accountBalances = AccountIds(accounts)
        /\ \A k \in DOMAIN accountBalances : ~IsNaN(accountBalances[k])
        /\ ~IsNaN(totalBalance(accountBalances))

-----------------------------------------------------------------------------
(* SpecCatchUp: the application is opened on templates that earlier         *)
(* sessions saved and on a later day; nobody touches it, and the catch-up   *)
(* effect runs after every render that changed recurringTransactions        *)

CatchUpTodays == {<<2024, 3, 1>>, <<2024, 3, 5>>}
CatchUpEndDates == {NoDate, <<2024, 2, 25>>}

\* the dates the templates were saved on: within a month before today for a
\* DAILY template, at the end of January or in February for the others
CatchUpStarts(f) ==
    IF f = "DAILY" THEN {<<2024, 2, 10>>, <<2024, 2, 20>>}
    ELSE {<<2024, 1, 29>>, <<2024, 1, 30>>, <<2024, 1, 31>>, <<2024, 2, 10>>}

\* the entry the templates were saved from
CatchUpData ==
    [type |-> "EXPENSE", amount |-> Num(100), category |-> "cat_food",
     description |-> <<"rent">>, location |-> <<>>,
     accountId |-> "acc_1", toAccountId |-> Undefined]

\* the template that handleSaveTransaction makes of a new entry
SavedTemplate(n, f, start, end) ==
    RecurringTransaction(<<"rec", n>>, f, start, start, end, CatchUpData)

\* one template of every frequency, start date and end date, or a DAILY and a
\* MONTHLY template saved one after the other
CatchUpTemplateLists ==
    UNION {{<<SavedTemplate(1, f, d, e)>> : d \in CatchUpStarts(f), e \in CatchUpEndDates} :
              f \in Frequency}
    \cup
    {<<SavedTemplate(1, "DAILY", <<2024, 2, 20>>, e),
       SavedTemplate(2, "MONTHLY", d, NoDate)>> :
        d \in CatchUpStarts("MONTHLY"), e \in CatchUpEndDates}

CatchUpInit ==
    /\ accounts = INITIAL_ACCOUNTS
    /\ transactions \in StoredTransactions
    /\ recurringTransactions \in CatchUpTemplateLists
    /\ accountBalances = <<>>
    /\ today \in CatchUpTodays
    /\ phase = "render"
    /\ effectDue = TRUE
    /\ lastPass = NoPass
    /\ renderedPending = FALSE
    /\ clock = 0
    /\ HarnessIdle
    /\ DateIdle
    /\ LedgerIdle

CatchUpNext ==
    \/ Render
    \/ SchedulerPass

\* React runs a pending render, and the effects of a render, without waiting
\* for an event
SpecCatchUp ==
    /\ CatchUpInit
    /\ [][CatchUpNext]_vars
    /\ WF_vars(Render)
    /\ WF_vars(SchedulerPass)

\* the positions of the ledger that hold an instance of the template
InstancesOf(rt) ==
    {j \in 1..Len(transactions) :
        /\ transactions[j].isRecurringInstance = TRUE
        /\ transactions[j].id[1] = "auto"
        /\ transactions[j].id[2] = rt.id[2]}

\* d is a due date that gets an instance: on or before today and not after the
\* end date of the template
WithinReach(rt, d) ==
    DateLE(d, today) /\ (rt.endDate = NoDate \/ DateLE(d, rt.endDate))

\* the ledger holds one instance for each due date of the template within
\* reach, and no other instance of it: no two instances have the same date,
\* the start date has its instance when it is within reach, every date with
\* an instance is within reach and is the start date or the step after a
\* date with an instance, and the step after a date with an instance has
\* its instance when it is within reach
OneInstancePerDueDate(rt) ==
    LET dates == {transactions[j].date : j \in InstancesOf(rt)}
    IN  /\ Cardinality(dates) = Cardinality(InstancesOf(rt))
        /\ WithinReach(rt, rt.startDate) <=> rt.startDate \in dates
        /\ \A d \in dates :
              /\ WithinReach(rt, d)
              /\ d = rt.startDate \/ \E e \in dates : d = getNextDate(e, rt.frequency)
              /\ WithinReach(rt, getNextDate(d, rt.frequency))
                    => getNextDate(d, rt.frequency) \in dates

\* the last pass emitted nothing and changed nothing, no render and no effect
\* is pending, no template is due, and every due date has its instance
CaughtUp ==
    /\ phase = "idle"
    /\ lastPass.ran
    /\ \A i \in 1..Len(lastPass.instances) : lastPass.instances[i] = <<>>
    /\ lastPass.after = lastPass.before
    /\ recurringTransactions = lastPass.before
    /\ \A i \in 1..Len(recurringTransactions) :
          LET rt == recurringTransactions[i]
          IN  /\ DateLT(today, rt.nextDueDate) \/ PastEnd(rt)
              /\ OneInstancePerDueDate(rt)

-----------------------------------------------------------------------------
(* One save of a recurring entry and the ledger entries of its date *)

\* the ledger entries dated at the start date of a template; the ledger of
\* Spec holds no entry on a form date before the save, so these stem from it
OnSavedDate(rt) == {j \in 1..Len(transactions) : transactions[j].date = rt.startDate}

\* the saved date is reached and within the end date of the template
SavedDateDue(rt) ==
    /\ DateLE(rt.startDate, today)
    /\ rt.endDate = NoDate \/ DateLE(rt.startDate, rt.endDate)

\* C26: once the scheduler has run after one recurring save (new entry, edit,
\* or duplicate-and-add), the ledger holds one transaction dated at the saved
\* date, the direct record or the first instance, never both
C26_OneEntryForSavedDate ==
    (phase = "idle" /\ lastPass.ran /\ lastPass.today = today
        /\ lastPass.after = recurringTransactions) =>
        \A i \in 1..Len(recurringTransactions) :
            LET rt == recurringTransactions[i]
            IN  /\ Cardinality(OnSavedDate(rt)) <= 1
                /\ SavedDateDue(rt) => Cardinality(OnSavedDate(rt)) = 1

-----------------------------------------------------------------------------
(* The calendar months of the instances of a MONTHLY template *)

InMonth(rt, ym) == {j \in InstancesOf(rt) : MonthIndex(transactions[j].date) = ym}

DayOf(j) == transactions[j].date[3]

ShortOf(a, b) == IF a <= b THEN a ELSE b

\* C27: once catch-up has completed, a MONTHLY template without end date has
\* one instance in every calendar month from its start month to the month
\* before today's and at most one in today's month, whatever its start day
\* (29, 30 and 31 included), and each instance is dated at the start day or at
\* the last day of a shorter month
C27_OneInstanceEveryMonth ==
    CaughtUp =>
        \A i \in 1..Len(recurringTransactions) :
            LET rt == recurringTransactions[i]
                first == MonthIndex(rt.startDate)
                last == MonthIndex(today)
            IN  (rt.frequency = "MONTHLY" /\ rt.endDate = NoDate) =>
                    /\ \A ym \in first..(last - 1) : Cardinality(InMonth(rt, ym)) = 1
                    /\ Cardinality(InMonth(rt, last)) <= 1
                    /\ \A j \in InstancesOf(rt) :
                          LET d == transactions[j].date
                          IN  DayOf(j) = ShortOf(rt.startDate[3], DaysInMonth(d[1], d[2]))

-----------------------------------------------------------------------------
(* SpecRace: user actions between a render and its pending catch-up effect.

   The effect closes over the recurringTransactions of its render (line 248)
   and commits setRecurringTransactions(updatedRecurrings), a whole-list
   replacement (line 281).  The effects of a render that no click started
   (the first render, and the render after the effect's own update) run
   later than the render, so a click handler can run in between: its
   functional updates are queued first, the pending effect then runs on the
   list of its render, and React applies the queued updates in order.
   lastPass.base is the list the handler left, the one the queue starts
   from. *)

TemplateIds(rts) == {rts[i].id : i \in 1..Len(rts)}

\* one run of the effect on the list rts
Pass(rts, tday) ==
    LET res == CatchUpAll(rts, tday)
    IN  [updatedRecurrings |-> [i \in 1..Len(res) |-> res[i].rt],
         instances |-> [i \in 1..Len(res) |-> res[i].txs],
         hasChanges |-> \E i \in 1..Len(res) : res[i].txs # <<>>]

\* the effects of the last render are pending and no click started that
\* render: it is the first one, or it shows the list the last pass committed
EffectDeferred ==
    /\ phase = "effect"
    /\ ~lastPass.ran \/ lastPass.after = recurringTransactions

\* a handler that leaves the template list as base and the ledger as txs runs
\* while the effect of the rendered list is pending and has instances to
\* emit (when it has none, the outcome is that of the pass followed by the
\* handler).  unified: one render applies the whole queue.  Otherwise the
\* handler's updates are rendered first, the effect runs on that render too,
\* and the updates of both runs are applied in a second render.
HandlerBeforeEffect(base, txs, unified) ==
    /\ EffectDeferred
    /\ \E e0 \in {Pass(recurringTransactions, today)}, e1 \in {Pass(base, today)} :
          /\ e0.hasChanges
          /\ recurringTransactions' =
                 IF ~unified /\ e1.hasChanges THEN e1.updatedRecurrings
                 ELSE e0.updatedRecurrings
          /\ transactions' =
                 (IF unified THEN <<>> ELSE Flatten(e1.instances))
                     \o Flatten(e0.instances) \o txs
          /\ lastPass' = [ran |-> TRUE, today |-> today,
                          before |-> recurringTransactions,
                          base |-> base,
                          after |-> recurringTransactions',
                          instances |-> e0.instances,
                          prevRan |-> lastPass.ran,
                          prevToday |-> lastPass.today,
                          prevAfter |-> lastPass.after,
                          prevCounts |-> [i \in 1..Len(lastPass.instances) |->
                                             Len(lastPass.instances[i])]]
    /\ effectDue' = TRUE
    /\ phase' = "render"
    /\ UNCHANGED <<accounts, accountBalances, today, renderedPending,
                   balVars, dateVars, ledgerVars>>

\* handleSaveTransaction(data) of a new entry (editingId is null) in that window
SaveBeforeEffect(data, unified) ==
    /\ clock < MaxSaves
    /\ clock' = clock + 1
    /\ LET safeAmount == IF IsNaN(data.amount) THEN Num(0) ELSE data.amount
           newRecurring ==
               RecurringTransaction(<<"rec", clock>>, data.frequency, data.date,
                   data.date, data.endDate, [data EXCEPT !.amount = safeAmount])
           created ==
               [Transaction(<<"tx", clock>>, data.date, safeAmount, data.type,
                            data.category, data.accountId, data.toAccountId, FALSE)
                   EXCEPT !.description = data.description,
                          !.location = data.location]
       IN  HandlerBeforeEffect(
               IF data.isRecurring THEN Append(recurringTransactions, newRecurring)
               ELSE recurringTransactions,
               IF data.isRecurring THEN transactions ELSE <<created>> \o transactions,
               unified)

\* deleteRecurring(id) in that window
DeleteBeforeEffect(id, unified) ==
    /\ UNCHANGED clock
    /\ HandlerBeforeEffect(
           SelectSeq(recurringTransactions, LAMBDA r : r.id # id), transactions,
           unified)

\* the template lists of the snapshots the application is started from
RaceTemplateLists ==
    {<<>>, <<SavedTemplate(1, "WEEKLY", <<2024, 2, 9>>, NoDate)>>}

RaceInit ==
    /\ accounts = INITIAL_ACCOUNTS
    /\ transactions \in StoredTransactions
    /\ recurringTransactions \in RaceTemplateLists
    /\ accountBalances = <<>>
    /\ today \in Todays
    /\ phase = "render"
    /\ effectDue = TRUE
    /\ lastPass = NoPass
    /\ renderedPending = FALSE
    /\ clock = 0
    /\ HarnessIdle
    /\ DateIdle
    /\ LedgerIdle

RaceNext ==
    \/ Render
    \/ SchedulerPass
    \/ \E data \in FormData :
          FormDataOk(data) /\ SaveTransaction(data, NoId, FALSE)
    \/ \E i \in 1..Len(recurringTransactions) :
          DeleteRecurring(recurringTransactions[i].id)
    \/ \E data \in FormData, unified \in BOOLEAN :
          FormDataOk(data) /\ SaveBeforeEffect(data, unified)
    \/ \E i \in 1..Len(recurringTransactions), unified \in BOOLEAN :
          DeleteBeforeEffect(recurringTransactions[i].id, unified)
    \/ Tick

SpecRace == RaceInit /\ [][RaceNext]_vars

\* C28: the commit of a scheduler pass leaves the template list as the user's
\* actions left it, under every interleaving of a handler with the pass: a
\* template the user appended is in the committed list, a template the user
\* removed is not, and the pass emits no instance for a removed template
C28_CommitKeepsUserActions ==
    [][phase = "effect" =>
        LET pass == lastPass'
        IN  /\ TemplateIds(pass.base) \subseteq TemplateIds(recurringTransactions')
            /\ TemplateIds(recurringTransactions') \subseteq TemplateIds(pass.base)
            /\ \A i \in 1..Len(pass.instances) :
                  pass.instances[i] # <<>> =>
                      pass.before[i].id \in TemplateIds(pass.base)]_vars

-----------------------------------------------------------------------------
(* The category of a transaction through export and import *)

CategoryIds == {AllCategories[i].id : i \in 1..Len(AllCategories)}

\* C29: exporting a transaction (category id to name) and importing the row
\* back (name to id, with the type of the row) gives the category id the
\* transaction had, an id of the registry; an INCOME entry of cat_other_inc
\* comes back as cat_other_inc
C29_CategoryRoundTrip ==
    (RoundTrip /\ Len(lastImport.newTransactions) = Len(exported.rows)) =>
        \A k \in 1..Len(exported.rows) :
            LET old == exported.rows[k]
                new == lastImport.newTransactions[k]
            IN  /\ new.category = getCategoryId(CategoryLabel(old.category), old.type)
                /\ new.category \in CategoryIds
                /\ old.category \in CategoryIds => new.category = old.category

-----------------------------------------------------------------------------
(* The accounts of imported transactions *)

\* C30: after a CSV import every imported transaction has the id of an account
\* of the resulting account list as accountId, and no toAccountId or the id of
\* such an account, also for a row without account name and for an import
\* into an empty account list
C30_ImportedAccountsExist ==
    lastImport.ran =>
        \A k \in 1..Len(lastImport.newTransactions) :
            LET tx == lastImport.newTransactions[k]
                ids == AccountIds(lastImport.accountsAfter)
            IN  /\ tx.accountId \in ids
                /\ tx.toAccountId = Undefined \/ tx.toAccountId \in ids

====
